---- MODULE Spec2Model ----
(***************************************************************************)
(* Geodesic engine: OBJ loader, edge-graph Dijkstra (MeshEngine) and the   *)
(* Heat-Method path extraction (analytics.hpp).                            *)
(*                                                                         *)
(* Doubles are modelled as fixed-point integers: a length d is the integer *)
(* floor(Scale * d).  Vertex ids are 0-based as in the source; sequences   *)
(* are 1-based, so vector element v[i] is At(v, i).                        *)
(***************************************************************************)
EXTENDS Integers, Sequences, FiniteSets, TLC

VARIABLES vertices, faces, graph, pc, args, result, oobAccess, resultFile, heatOut,
          heatWalk, inputFileName, calls, file, proc, shooting, requests, disk

vars == <<vertices, faces, graph, pc, args, result, oobAccess, resultFile, heatOut,
          heatWalk, inputFileName, calls, file, proc, shooting, requests, disk>>

\* The loaded mesh (MeshEngine members).
meshVars == <<vertices, faces, graph>>

\* What one run of the engine produces.
runVars == <<args, result, oobAccess, resultFile, heatOut, heatWalk, inputFileName,
            calls, proc, shooting>>

\* The HTTP server: the request each client has in flight and the result
\* files under frontend/public.
httpVars == <<requests, disk>>

(* ------------------------------ bounds -------------------------------- *)
MaxVerts == 4
MaxFaces == 2
Scale == 100
MaxLines == 5
MaxFaceLines == 2

(* ------------------------- program constants --------------------------- *)
\* std::numeric_limits<double>::max(), the "unreached" sentinel of solve.
DblMax == 1000000000
\* parent[] initial value / "no predecessor".
NoParent == -1
\* A double that is not a number (fixed-point sentinel).
NaN == -1000000

isNaN(x) == x = NaN

(* ------------------------------ helpers -------------------------------- *)
At(s, i) == s[i + 1]

SetAt(s, i, x) == [s EXCEPT ![i + 1] = x]

Range(s) == {s[i] : i \in 1..Len(s)}

\* A sequence given as a function, evaluated once into a tuple.
AsSeq(f) == f \o <<>>

Reverse(s) == AsSeq([i \in 1..Len(s) |-> s[Len(s) + 1 - i]])

RECURSIVE SqrtSearch(_, _, _)
SqrtSearch(n, lo, hi) ==
    IF lo >= hi THEN lo
    ELSE LET mid == (lo + hi + 1) \div 2
         IN IF mid * mid <= n THEN SqrtSearch(n, mid, hi)
                              ELSE SqrtSearch(n, lo, mid - 1)

\* std::sqrt on a fixed-point value: floor(sqrt(n)).  The search stays below
\* 46340, whose square is the largest that fits the checker's integers.
ISqrt(n) == SqrtSearch(n, 0, IF n < 46340 THEN n ELSE 46340)

RECURSIVE SumUpTo(_, _)
SumUpTo(f, k) == IF k = 0 THEN 0 ELSE f[k] + SumUpTo(f, k - 1)

\* Sum of the entries of a sequence of numbers.
SumSeqFrom(f) == SumUpTo(f, Len(f))

\* floor(Scale * sqrt(k)) for the small squared lengths the meshes produce,
\* computed once.
SqrtTableSize == 128 * 128

SqrtTable == AsSeq([k \in 1..SqrtTableSize |-> ISqrt(Scale * Scale * k)])

\* Scale * sqrt(k) in fixed point.
ScaledSqrt(k) ==
    IF k = 0 THEN 0
    ELSE IF k <= SqrtTableSize THEN SqrtTable[k]
    ELSE ISqrt(Scale * Scale * k)

(* --------------------------- input alphabet ---------------------------- *)
\* Vertex positions an OBJ "v" line may carry.
Pos == { <<0, 0, 0>>, <<0, 1, 0>>, <<2, 0, 0>>, <<3, 0, 0>>, <<1, 0, 2>> }

\* dist(v1, v2) of mesh_engine.cpp: sqrt(dx^2 + dy^2 + dz^2), not a number as
\* soon as one coordinate is not.
dist(v1, v2) ==
    IF \E k \in 1..3 : isNaN(v1[k]) \/ isNaN(v2[k]) THEN NaN
    ELSE ScaledSqrt( (v2[1] - v1[1]) * (v2[1] - v1[1])
                   + (v2[2] - v1[2]) * (v2[2] - v1[2])
                   + (v2[3] - v1[3]) * (v2[3] - v1[3]) )

\* A face token after std::stoi(head): ok = FALSE when stoi throws.
Tok(i) == [ok |-> TRUE, idx |-> i]

\* Token whose head std::stoi rejects.
BadTok == [ok |-> FALSE, idx |-> 0]

(* ------------------------- MeshEngine::loadOBJ ------------------------- *)
\* toIndex with a negative index counted from the last vertex instead of from
\* one past it.
toIndex_NegativeOffByOne(t, nverts) ==
    IF ~t.ok THEN -1
    ELSE IF t.idx = 0 THEN -1
    ELSE IF t.idx > 0 THEN t.idx - 1
    ELSE nverts + t.idx + 1

\* The lambda toIndex: -1 for a non-numeric or zero head, idx-1 for idx > 0,
\* |V| + idx for idx < 0.
toIndex(t, nverts) ==
    IF ~t.ok THEN -1
    ELSE IF t.idx = 0 THEN -1
    ELSE IF t.idx > 0 THEN t.idx - 1
    ELSE nverts + t.idx

\* The loop over the tokens of an "f" line: the resolved indices, or <<>> as
\* soon as one token resolves outside [0, |V|).
RECURSIVE resolveFace(_, _, _, _)
resolveFace(tokens, i, nverts, acc) ==
    IF i > Len(tokens) THEN acc
    ELSE LET resolved == toIndex(tokens[i], nverts)
         IN IF resolved < 0 \/ resolved >= nverts THEN <<>>
            ELSE resolveFace(tokens, i + 1, nverts, Append(acc, resolved))

\* graph.resize(k): existing lists kept, new ones empty.
resizeGraph(g, k) ==
    [i \in 1..k |-> IF i <= Len(g) THEN g[i] ELSE <<>>]

\* addEdge with the weight taken between v1 and itself (always 0).
addEdge_SameVertexWeight(g, verts, v1_idx, v2_idx) ==
    LET maxIndex == IF v1_idx >= v2_idx THEN v1_idx ELSE v2_idx
        g1 == IF maxIndex >= 0 /\ Len(g) <= maxIndex
              THEN resizeGraph(g, maxIndex + 1) ELSE g
        d  == dist(At(verts, v1_idx), At(verts, v1_idx))
        g2 == SetAt(g1, v1_idx,
                    Append(At(g1, v1_idx), [targetVertex |-> v2_idx, weight |-> d]))
    IN SetAt(g2, v2_idx,
             Append(At(g2, v2_idx), [targetVertex |-> v1_idx, weight |-> d]))

\* addEdge pushing the edge in one direction only.
addEdge_OneDirection(g, verts, v1_idx, v2_idx) ==
    LET maxIndex == IF v1_idx >= v2_idx THEN v1_idx ELSE v2_idx
        g1 == IF maxIndex >= 0 /\ Len(g) <= maxIndex
              THEN resizeGraph(g, maxIndex + 1) ELSE g
        d  == dist(At(verts, v1_idx), At(verts, v2_idx))
    IN SetAt(g1, v1_idx,
             Append(At(g1, v1_idx), [targetVertex |-> v2_idx, weight |-> d]))

\* MeshEngine::addEdge: grow graph to max(v1, v2) + 1 lists, then push the
\* edge in both directions with weight dist(vertices[v1], vertices[v2]).
addEdge(g, verts, v1_idx, v2_idx) ==
    LET maxIndex == IF v1_idx >= v2_idx THEN v1_idx ELSE v2_idx
        g1 == IF maxIndex >= 0 /\ Len(g) <= maxIndex
              THEN resizeGraph(g, maxIndex + 1) ELSE g
        d  == dist(At(verts, v1_idx), At(verts, v2_idx))
        g2 == SetAt(g1, v1_idx,
                    Append(At(g1, v1_idx), [targetVertex |-> v2_idx, weight |-> d]))
    IN SetAt(g2, v2_idx,
             Append(At(g2, v2_idx), [targetVertex |-> v1_idx, weight |-> d]))

\* The loop as a strip: triangles (f[i-1], f[i], f[i+1]).
RECURSIVE fanTriangles_Strip(_, _, _, _)
fanTriangles_Strip(faceIndices, i, verts, m) ==
    IF i + 1 >= Len(faceIndices) THEN m
    ELSE LET a == At(faceIndices, i - 1)
             b == At(faceIndices, i)
             c == At(faceIndices, i + 1)
             g1 == addEdge(m.graph, verts, a, b)
             g2 == addEdge(g1, verts, b, c)
             g3 == addEdge(g2, verts, c, a)
         IN fanTriangles_Strip(faceIndices, i + 1, verts,
                               [faces |-> Append(m.faces, <<a, b, c>>), graph |-> g3])

\* The fan loop of loadOBJ: triangles (f[0], f[i], f[i+1]), i = 1 .. k-2, each
\* pushed to faces and its three edges added to graph.
RECURSIVE fanTriangles(_, _, _, _)
fanTriangles(faceIndices, i, verts, m) ==
    IF i + 1 >= Len(faceIndices) THEN m
    ELSE LET a == At(faceIndices, 0)
             b == At(faceIndices, i)
             c == At(faceIndices, i + 1)
             g1 == addEdge(m.graph, verts, a, b)
             g2 == addEdge(g1, verts, b, c)
             g3 == addEdge(g2, verts, c, a)
         IN fanTriangles(faceIndices, i + 1, verts,
                         [faces |-> Append(m.faces, <<a, b, c>>), graph |-> g3])

\* One "v x y z" line: the vertex is appended.
LoadVertexLine(p) ==
    /\ pc = "loading"
    /\ Len(vertices) < MaxVerts
    /\ vertices' = Append(vertices, p)
    /\ UNCHANGED <<faces, graph, pc, runVars, file>>
    /\ UNCHANGED httpVars

\* One "f t1 .. tk" line.
LoadFaceLine(tokens) ==
    /\ pc = "loading"
    /\ Len(faces) + (Len(tokens) - 2) <= MaxFaces
    /\ LET faceIndices == IF Len(tokens) < 3 THEN <<>>
                          ELSE resolveFace(tokens, 1, Len(vertices), <<>>)
           m == IF Len(faceIndices) < 3 THEN [faces |-> faces, graph |-> graph]
                ELSE fanTriangles(faceIndices, 1, vertices,
                                  [faces |-> faces, graph |-> graph])
       IN /\ faces' = m.faces
          /\ graph' = m.graph
    /\ UNCHANGED <<vertices, pc, runVars, file>>
    /\ UNCHANGED httpVars

\* End of file: loadOBJ returns true.
FinishLoad ==
    /\ pc = "loading"
    /\ pc' = "ready"
    /\ UNCHANGED <<meshVars, runVars, file>>
    /\ UNCHANGED httpVars

(* --------------------- loadOBJ on the text of a file ------------------- *)
\* A line is its first word (type) and the words after it: nums holds them
\* as operator>>(double&) meets them on a "v" line (a number, or NotNumeric
\* for a word that is none), tokens holds them as texts on an "f" line.
Digits == <<"0", "1", "2", "3", "4", "5", "6", "7", "8", "9">>

\* INT_MAX, above which std::stoi throws std::out_of_range.
IntMax == 2147483647

\* A "v" field operator>>(double&) cannot parse.
NotNumeric == -999999

\* The values an uninitialised double of "Vec3 v;" may hold when the
\* extraction never wrote it: some number, or no number at all.
Indeterminate == {0, NaN}

isDigit(c) == \E k \in 1..Len(Digits) : Digits[k] = c

digitValue(c) == (CHOOSE k \in 1..Len(Digits) : Digits[k] = c) - 1

\* The digit loop of std::stoi from position i on: the value of the longest
\* run of digits, ok = FALSE when it passes INT_MAX.
RECURSIVE stoiDigits(_, _, _)
stoiDigits(head, i, acc) ==
    IF i > Len(head) \/ ~isDigit(head[i]) THEN [ok |-> TRUE, idx |-> acc]
    ELSE LET d == digitValue(head[i])
         IN IF acc > (IntMax - d) \div 10 THEN [ok |-> FALSE, idx |-> 0]
            ELSE stoiDigits(head, i + 1, acc * 10 + d)

\* std::stoi(head): an optional sign and the digits after it; whatever follows
\* the digits is ignored.  Without a digit, or past INT_MAX, it throws.
stoi(head) ==
    LET signed == Len(head) >= 1 /\ head[1] \in {"-", "+"}
        first == IF signed THEN 2 ELSE 1
    IN IF first > Len(head) \/ ~isDigit(head[first]) THEN BadTok
       ELSE LET r == stoiDigits(head, first, 0)
            IN IF ~r.ok THEN BadTok
               ELSE IF signed /\ head[1] = "-" THEN Tok(0 - r.idx)
               ELSE Tok(r.idx)

\* The head of a face token: the part before the first '/', the whole token
\* when there is none.
tokenHead(t) ==
    LET I == {i \in 1..Len(t) : t[i] = "/"}
    IN IF I = {} THEN t
       ELSE SubSeq(t, 1, (CHOOSE i \in I : \A j \in I : i <= j) - 1)

\* iss >> v.x >> v.y >> v.z on the fields of a "v" line: coordinate k is the
\* field when every field up to it is a number, 0 when field k is the first
\* that is no number (the failed extraction writes 0), and is left as it was
\* when the stream had already failed or the line ends before field k.
extractVec3(fields) ==
    LET isNumber(k) == k <= Len(fields) /\ fields[k] # NotNumeric
        goodBefore(k) == \A j \in 1..(k - 1) : isNumber(j)
        coord(k) == IF goodBefore(k) /\ isNumber(k) THEN {fields[k]}
                    ELSE IF goodBefore(k) /\ k <= Len(fields) THEN {0}
                    ELSE Indeterminate
    IN { <<x, y, z>> : x \in coord(1), y \in coord(2), z \in coord(3) }

\* One pass of the getline loop on a line given by its words, from mesh m: the
\* meshes it may leave.  A "v" line always pushes a vertex; an "f" line with
\* fewer than three tokens, or with a token that resolves outside [0, |V|),
\* adds nothing; any other line is ignored.
loadLine(m, line) ==
    IF line.type = "v"
    THEN { [m EXCEPT !.vertices = Append(@, v)] : v \in extractVec3(line.nums) }
    ELSE IF line.type = "f"
    THEN LET tokens == AsSeq([i \in 1..Len(line.tokens) |->
                                stoi(tokenHead(line.tokens[i]))])
             faceIndices == IF Len(tokens) < 3 THEN <<>>
                            ELSE resolveFace(tokens, 1, Len(m.vertices), <<>>)
             fg == IF Len(faceIndices) < 3 THEN [faces |-> m.faces, graph |-> m.graph]
                   ELSE fanTriangles(faceIndices, 1, m.vertices,
                                     [faces |-> m.faces, graph |-> m.graph])
         IN { [m EXCEPT !.faces = fg.faces, !.graph = fg.graph] }
    ELSE { m }

\* The meshes loadOBJ may leave after the lines i.. of a text, from the
\* meshes ms.
RECURSIVE loadLines(_, _, _)
loadLines(lines, i, ms) ==
    IF i > Len(lines) THEN ms
    ELSE loadLines(lines, i + 1, UNION { loadLine(m, lines[i]) : m \in ms })

\* The mesh after vertices.clear(), graph.clear(), faces.clear().
EmptyMesh == [vertices |-> <<>>, faces |-> <<>>, graph |-> <<>>]

\* One line of the file is read and processed.
ReadLine(line) ==
    /\ pc = "loading"
    /\ Len(file) < MaxLines
    /\ line.type = "f" =>
          Cardinality({i \in 1..Len(file) : file[i].type = "f"}) < MaxFaceLines
    /\ \E m \in loadLine([vertices |-> vertices, faces |-> faces, graph |-> graph],
                         line) :
          /\ vertices' = m.vertices
          /\ faces' = m.faces
          /\ graph' = m.graph
    /\ file' = Append(file, line)
    /\ UNCHANGED <<pc, runVars>>
    /\ UNCHANGED httpVars

(* -------------------------- MeshEngine::solve -------------------------- *)
\* Position in pq of the element std::priority_queue<.., std::greater<>>
\* pops: the least (distance, vertex) pair in lexicographic order.
pqLess(a, b) == a[1] < b[1] \/ (a[1] = b[1] /\ a[2] < b[2])

\* A queue ordered by std::less: the greatest pair is popped.
pqTopIndex_MaxHeap(pq) ==
    CHOOSE i \in 1..Len(pq) :
        \A j \in 1..Len(pq) : j = i \/ pqLess(pq[j], pq[i])
                              \/ (pq[i] = pq[j] /\ i < j)

pqTopIndex(pq) ==
    CHOOSE i \in 1..Len(pq) :
        \A j \in 1..Len(pq) : j = i \/ pqLess(pq[i], pq[j])
                              \/ (pq[i] = pq[j] /\ i < j)

pqRemove(pq, i) ==
    [j \in 1..(Len(pq) - 1) |-> IF j < i THEN pq[j] ELSE pq[j + 1]]

\* The for loop over graph[u]: relax every edge in list order.
RECURSIVE relaxEdges(_, _, _, _)
relaxEdges(edges, i, u, st) ==
    IF i > Len(edges) THEN st
    ELSE LET edge == edges[i]
             cand == At(st.min_dist, u) + edge.weight
         IN IF cand < At(st.min_dist, edge.targetVertex)
            THEN relaxEdges(edges, i + 1, u,
                    [st EXCEPT !.min_dist = SetAt(@, edge.targetVertex, cand),
                               !.parent   = SetAt(@, edge.targetVertex, u),
                               !.pq       = Append(@, <<cand, edge.targetVertex>>)])
            ELSE relaxEdges(edges, i + 1, u, st)

\* The while loop of solve.  graph[u] with u >= graph.size() is a read past
\* the end of the vector: it is recorded in oob and read as an empty list.
RECURSIVE solveLoop(_, _, _)
solveLoop(g, target, st) ==
    IF st.pq = <<>> THEN st
    ELSE LET k    == pqTopIndex(st.pq)
             d    == st.pq[k][1]
             u    == st.pq[k][2]
             st1  == [st EXCEPT !.pq = pqRemove(@, k)]
         IN IF u = target THEN st1
            ELSE IF d > At(st1.min_dist, u) THEN solveLoop(g, target, st1)
            ELSE IF u >= Len(g)
                 THEN solveLoop(g, target, [st1 EXCEPT !.oob = TRUE])
                 ELSE solveLoop(g, target, relaxEdges(At(g, u), 1, u, st1))

\* The path loop: for (v = target; v != -1; v = parent[v]) push_back(v).
RECURSIVE walkParents(_, _, _, _)
walkParents(parent, v, acc, fuel) ==
    IF v = NoParent \/ fuel = 0 THEN acc
    ELSE walkParents(parent, At(parent, v), Append(acc, v), fuel - 1)

\* Path recovery without the std::reverse.
recoverPath_NoReverse(parent, target, n) ==
    walkParents(parent, target, <<>>, n + 1)

\* Path recovery of solve: the parent chain from target, reversed.  The walk
\* is cut after n + 1 vertices so that a cyclic chain shows as a repeat.
recoverPath(parent, target, n) ==
    Reverse(walkParents(parent, target, <<>>, n + 1))

\* MeshEngine::solve for start and target inside [0, |V|).
solve(verts, g, start, target) ==
    LET n   == Len(verts)
        st0 == [min_dist |-> SetAt([i \in 1..n |-> DblMax], start, 0),
                parent   |-> [i \in 1..n |-> NoParent],
                pq       |-> << <<0, start>> >>,
                oob      |-> FALSE]
        st  == solveLoop(g, target, st0)
        reachable == (start = target) \/ (At(st.parent, target) # NoParent)
        path == IF reachable THEN recoverPath(st.parent, target, n) ELSE <<>>
    IN [totalDistance |-> At(st.min_dist, target),
        reachable     |-> reachable,
        path          |-> path,
        allDistances  |-> st.min_dist,
        oob           |-> st.oob]

\* DijkstraResult before solve has run.
NoResult == [totalDistance |-> 0, reachable |-> FALSE, path |-> <<>>,
             allDistances |-> <<>>]

\* No result file on disk.
NoFile == [written |-> FALSE, reachable |-> FALSE, totalIsNull |-> FALSE,
           totalDistance |-> 0, path |-> <<>>, allDistances |-> <<>>]

\* No analytics result yet.
NoHeat == [surfaceType |-> "", error |-> "", curves |-> <<>>]

\* No path extraction has run.
NoWalk == [ran |-> FALSE, greedy |-> <<>>, plateau |-> <<>>, fallback |-> FALSE]

\* What a request has done besides filling its result: the solver function it
\* called ("" for none) and whether it read the vertex array
\* (computeNormalizeTransform / applyNormalize / objVertices[id]).
NoCalls == [solver |-> "", vertexReads |-> FALSE]

\* Exit status of the engine process: still running, return 0, return 1,
\* killed by SIGABRT (an exception nobody catches) and killed by SIGSEGV, the
\* last two as a shell reports them.
NoExit == -1
ExitSuccess == 0
ExitFailure == 1
Aborted == 134
Segfault == 139

\* The engine process as main starts: argc, whether the model file and the
\* result file could be opened, whether solve was called, the exit status and
\* whether something was printed to std::cerr.
NoProc == [argc |-> 4, modelOpened |-> TRUE, resultOpened |-> TRUE,
           solved |-> FALSE, code |-> NoExit, diagnostic |-> FALSE]

\* main with argc < 4: the usage line is printed and main goes on to
\* std::stoi(argv[1]), std::stoi(argv[2]) and std::string fileName = argv[3],
\* of which argv[argc] is a null pointer.  Building a std::string from a null
\* pointer is undefined behaviour: the library throws std::logic_error, which
\* nobody catches, or strlen reads address 0.
MainBadArgs(argc) ==
    /\ pc = "loading"
    /\ vertices = <<>> /\ faces = <<>> /\ file = <<>>
    /\ argc < 4
    /\ \E code \in {Aborted, Segfault} :
          proc' = [proc EXCEPT !.argc = argc, !.modelOpened = FALSE,
                               !.diagnostic = TRUE, !.code = code]
    /\ pc' = "crashed"
    /\ UNCHANGED <<meshVars, args, result, oobAccess, resultFile, heatOut, heatWalk,
                   inputFileName, calls, file, shooting>>
    /\ UNCHANGED httpVars

\* main when loadOBJ returns false (the model file cannot be opened): a line
\* on std::cerr and return 1.
MainLoadFails ==
    /\ pc = "loading"
    /\ vertices = <<>> /\ faces = <<>> /\ file = <<>>
    /\ proc' = [proc EXCEPT !.modelOpened = FALSE, !.diagnostic = TRUE,
                            !.code = ExitFailure]
    /\ pc' = "exited"
    /\ UNCHANGED <<meshVars, args, result, oobAccess, resultFile, heatOut, heatWalk,
                   inputFileName, calls, file, shooting>>
    /\ UNCHANGED httpVars

\* What a run that indexed min_dist / parent outside [0, n) may hand back when
\* it does not crash: the cells it read hold arbitrary values.
GarbageResults(n, target) ==
    { [totalDistance |-> d, reachable |-> r,
       path |-> IF r THEN <<target>> ELSE <<>>,
       allDistances |-> [i \in 1..n |-> DblMax]] :
         d \in {DblMax}, r \in BOOLEAN }

\* Where the write min_dist[start] = 0 of solve may land when start is outside
\* [0, |V|): on memory that is not the mesh's, on a coordinate of a vertex, or
\* on the weight of an edge.  The meshes it leaves.
strayWrite(verts, g) ==
    {[vertices |-> verts, graph |-> g]}
    \cup { [vertices |-> [verts EXCEPT ![i][k] = 0], graph |-> g] :
               i \in 1..Len(verts), k \in 1..3 }
    \cup UNION { { [vertices |-> verts, graph |-> [g EXCEPT ![u][e].weight = 0]] :
                     e \in 1..Len(g[u]) } : u \in 1..Len(g) }

\* main: engine.solve(startVertexIndex, endVertexIndex) on the loaded mesh.
\* Neither main nor solve compares the two ids with |V|; an id outside
\* [0, |V|) makes solve index min_dist and parent out of range, and a popped
\* vertex u >= graph.size() makes it index graph out of range.  Both are
\* undefined behaviour: the run crashes or goes on with what it read, and
\* with what its write to min_dist[start] hit.
MainSolve(start, target) ==
    /\ pc = "ready"
    /\ args' = [start |-> start, target |-> target]
    /\ LET n == Len(vertices)
           valid == start >= 0 /\ start < n /\ target >= 0 /\ target < n
       IN IF valid
          THEN LET r == solve(vertices, graph, start, target)
                   res == [totalDistance |-> r.totalDistance,
                           reachable |-> r.reachable,
                           path |-> r.path,
                           allDistances |-> r.allDistances]
               IN /\ oobAccess' = r.oob
                  /\ UNCHANGED meshVars
                  /\ \/ /\ pc' = "solved"
                        /\ result' = res
                        /\ proc' = [proc EXCEPT !.solved = TRUE]
                     \/ /\ r.oob
                        /\ pc' = "crashed"
                        /\ result' = NoResult
                        /\ proc' = [proc EXCEPT !.solved = TRUE, !.code = Segfault]
          ELSE /\ oobAccess' = TRUE
               /\ \/ /\ pc' = "crashed"
                     /\ result' = NoResult
                     /\ proc' = [proc EXCEPT !.solved = TRUE, !.code = Segfault]
                     /\ UNCHANGED meshVars
                  \/ /\ pc' = "solved"
                     /\ result' \in GarbageResults(n, target)
                     /\ proc' = [proc EXCEPT !.solved = TRUE]
                     /\ \E m \in IF start >= 0 /\ start < n
                                  THEN {[vertices |-> vertices, graph |-> graph]}
                                  ELSE strayWrite(vertices, graph) :
                           /\ vertices' = m.vertices
                           /\ graph' = m.graph
                     /\ UNCHANGED faces
    /\ UNCHANGED <<resultFile, heatOut, heatWalk, inputFileName, calls, file,
                   shooting>>
    /\ UNCHANGED httpVars

\* MeshEngine::writeJSON: totalDistance is written as null when the result is
\* not reachable or the distance is at least DBL_MAX / 2.  When the file
\* cannot be opened nothing is written.
writeJSON(res) ==
    LET isNull == ~res.reachable \/ res.totalDistance >= DblMax \div 2
    IN [written |-> TRUE, reachable |-> res.reachable, totalIsNull |-> isNull,
        totalDistance |-> IF isNull THEN 0 ELSE res.totalDistance,
        path |-> res.path, allDistances |-> res.allDistances]

\* main: engine.writeJSON("result.json", ...) and return 0.  writeJSON
\* returns nothing: when the file cannot be opened it prints a line on
\* std::cerr and main still returns 0.
MainWriteJSON(opened) ==
    /\ pc = "solved"
    /\ resultFile' = IF opened THEN writeJSON(result) ELSE resultFile
    /\ proc' = [proc EXCEPT !.resultOpened = opened,
                            !.diagnostic = ~opened,
                            !.code = ExitSuccess]
    /\ pc' = "exited"
    /\ UNCHANGED <<meshVars, args, result, oobAccess, heatOut, heatWalk,
                   inputFileName, calls, file, shooting>>
    /\ UNCHANGED httpVars

(* ------------------ analytics.hpp: Heat-Method solver ------------------ *)
\* std::numeric_limits<double>::infinity(), the initial distv of the fallback.
Infinity == 2000000000

\* The strict-descent margin eps = 1e-9 and the plateau tolerance 1e-6 of the
\* greedy walk; phi is counted in units of 1e-9.
DescentEps == 1
PlateauTol == 1000

\* Area and mass threshold 1e-12: below one unit of the fixed-point scale.
AreaEps == 0

\* Double comparison and arithmetic with NaN.
fless(a, b) == ~isNaN(a) /\ ~isNaN(b) /\ a < b

fadd(a, b) == IF isNaN(a) \/ isNaN(b) THEN NaN ELSE a + b

fsub(a, b) == IF isNaN(a) \/ isNaN(b) THEN NaN ELSE a - b

vsub(a, b) == <<a[1] - b[1], a[2] - b[2], a[3] - b[3]>>

vdot(a, b) == a[1] * b[1] + a[2] * b[2] + a[3] * b[3]

vcross(a, b) == <<a[2] * b[3] - a[3] * b[2],
                  a[3] * b[1] - a[1] * b[3],
                  a[1] * b[2] - a[2] * b[1]>>

\* vlen in fixed point: floor(Scale * sqrt(a . a)).
vlen(a) == ScaledSqrt(vdot(a, a))

vdist(a, b) == vlen(vsub(a, b))

MinOf(S) == CHOOSE x \in S : \A y \in S : x <= y

MaxOf(S) == CHOOSE x \in S : \A y \in S : x >= y

\* computeNormalizeTransform: bounding-box minimum, maximum and largest extent.
computeNormalizeTransform(verts) ==
    LET xs(k) == {verts[i][k] : i \in 1..Len(verts)}
        minV == <<MinOf(xs(1)), MinOf(xs(2)), MinOf(xs(3))>>
        maxV == <<MaxOf(xs(1)), MaxOf(xs(2)), MaxOf(xs(3))>>
    IN [minV |-> minV, maxV |-> maxV,
        maxSize |-> MaxOf({maxV[1] - minV[1], maxV[2] - minV[2], maxV[3] - minV[3]})]

\* applyNormalize: (p - center) * scale with center = (minV + maxV) / 2 and
\* scale = 2 / maxSize (1 when maxSize is 0).  The result is kept as the integer
\* vector 2p - minV - maxV, the normalised position in units of 1 / maxSize
\* (1 / 2 when maxSize is 0).
applyNormalize(t, p) ==
    <<2 * p[1] - t.minV[1] - t.maxV[1],
      2 * p[2] - t.minV[2] - t.maxV[2],
      2 * p[3] - t.minV[3] - t.maxV[3]>>

\* Twice the area of face f: |(pj - pi) x (pk - pi)|.
faceArea2(verts, f) ==
    vlen(vcross(vsub(At(verts, f[2]), At(verts, f[1])),
                vsub(At(verts, f[3]), At(verts, f[1]))))

\* The assembly loop keeps a face when its indices are in range and its area
\* is finite and above 1e-12.
faceUsed(verts, f) ==
    /\ \A k \in 1..3 : f[k] >= 0 /\ f[k] < Len(verts)
    /\ faceArea2(verts, f) > AreaEps

\* weights[i][j] += w: key j is inserted into the map of i when it is new.
insertKey(keys, i, j) ==
    IF \E k \in 1..Len(At(keys, i)) : At(keys, i)[k] = j THEN keys
    ELSE SetAt(keys, i, Append(At(keys, i), j))

\* The assembly loop: lumped mass (in units of area2 / 6) and, per vertex, the
\* keys of its weight map in insertion order.
RECURSIVE assemble(_, _, _, _)
assemble(verts, fs, k, acc) ==
    IF k > Len(fs) THEN acc
    ELSE LET f == fs[k]
         IN IF ~faceUsed(verts, f) THEN assemble(verts, fs, k + 1, acc)
            ELSE LET i == f[1]
                     j == f[2]
                     l == f[3]
                     a == faceArea2(verts, f) \div 6
                     m1 == SetAt(acc.mass, i, At(acc.mass, i) + a)
                     m2 == SetAt(m1, j, At(m1, j) + a)
                     m3 == SetAt(m2, l, At(m2, l) + a)
                     k1 == insertKey(acc.keys, i, j)
                     k2 == insertKey(k1, j, i)
                     k3 == insertKey(k2, j, l)
                     k4 == insertKey(k3, l, j)
                     k5 == insertKey(k4, l, i)
                     k6 == insertKey(k5, i, l)
                 IN assemble(verts, fs, k + 1, [mass |-> m3, keys |-> k6])

\* Neighbour lists that hold every other vertex instead of the map keys.
neighborLists_AllVertices(keys, reversed) ==
    AsSeq([i \in 1..Len(keys) |->
             AsSeq([k \in 1..(Len(keys) - 1) |-> IF k < i THEN k - 1 ELSE k])])

\* neighbors[i]: the keys of weights[i] in the iteration order of the
\* unordered_map, which the implementation chooses: insertion order or its
\* reverse.
neighborLists(keys, reversed) ==
    AsSeq([i \in 1..Len(keys) |-> IF reversed THEN Reverse(keys[i]) ELSE keys[i]])

\* Shift phi so that its minimum is 0: minPhi starts at +infinity and
\* std::min skips NaN entries.
shiftPhi(phi) ==
    LET finite == {phi[i] : i \in 1..Len(phi)} \ {NaN}
    IN IF finite = {} THEN AsSeq([i \in 1..Len(phi) |-> NaN])
       ELSE AsSeq([i \in 1..Len(phi) |-> fsub(phi[i], MinOf(finite))])

\* First scan of a greedy step: the neighbour of strictly smaller phi.
RECURSIVE scanDescent(_, _, _, _)
scanDescent(nbs, k, phi, acc) ==
    IF k > Len(nbs) THEN acc
    ELSE IF fless(fadd(At(phi, nbs[k]), DescentEps), acc.bestVal)
         THEN scanDescent(nbs, k + 1, phi,
                          [best |-> nbs[k], bestVal |-> At(phi, nbs[k])])
         ELSE scanDescent(nbs, k + 1, phi, acc)

\* The second scan without the test of visited.
RECURSIVE scanPlateau_IgnoresVisited(_, _, _, _, _)
scanPlateau_IgnoresVisited(nbs, k, phi, visited, acc) ==
    IF k > Len(nbs) THEN acc
    ELSE IF fless(At(phi, nbs[k]), fadd(acc.bestVal, PlateauTol))
         THEN scanPlateau_IgnoresVisited(nbs, k + 1, phi, visited,
                          [best |-> nbs[k], bestVal |-> At(phi, nbs[k])])
         ELSE scanPlateau_IgnoresVisited(nbs, k + 1, phi, visited, acc)

\* Second scan, when the first found nothing: an unvisited neighbour whose
\* phi is below bestVal + 1e-6.
RECURSIVE scanPlateau(_, _, _, _, _)
scanPlateau(nbs, k, phi, visited, acc) ==
    IF k > Len(nbs) THEN acc
    ELSE IF nbs[k] \notin visited
            /\ fless(At(phi, nbs[k]), fadd(acc.bestVal, PlateauTol))
         THEN scanPlateau(nbs, k + 1, phi, visited,
                          [best |-> nbs[k], bestVal |-> At(phi, nbs[k])])
         ELSE scanPlateau(nbs, k + 1, phi, visited, acc)

\* The greedy loop: for (step = 0; step < 3n; step++).  plateau records,
\* for each step taken, whether the second scan chose it.
RECURSIVE greedyWalk(_, _, _, _, _, _, _, _)
greedyWalk(nbrs, phi, startId, n, step, path, visited, plateau) ==
    LET current == path[Len(path)]
    IN IF step >= n * 3 \/ current = startId
       THEN [path |-> path, plateau |-> plateau]
       ELSE LET init == [best |-> -1, bestVal |-> At(phi, current)]
                d    == scanDescent(At(nbrs, current), 1, phi, init)
                pick == IF d.best = -1
                        THEN scanPlateau(At(nbrs, current), 1, phi, visited, init)
                        ELSE d
            IN IF pick.best = -1 THEN [path |-> path, plateau |-> plateau]
               ELSE greedyWalk(nbrs, phi, startId, n, step + 1,
                               Append(path, pick.best),
                               visited \cup {pick.best},
                               Append(plateau, d.best = -1))

\* Relaxation of the fallback Dijkstra over neighbors[uidx].
RECURSIVE heatRelax(_, _, _, _, _)
heatRelax(verts, nbs, k, uidx, st) ==
    IF k > Len(nbs) THEN st
    ELSE LET nb == nbs[k]
             w  == vdist(At(verts, uidx), At(verts, nb))
             cand == At(st.distv, uidx) + w
         IN IF cand < At(st.distv, nb)
            THEN heatRelax(verts, nbs, k + 1, uidx,
                    [st EXCEPT !.distv  = SetAt(@, nb, cand),
                               !.parent = SetAt(@, nb, uidx),
                               !.pq     = Append(@, <<cand, nb>>)])
            ELSE heatRelax(verts, nbs, k + 1, uidx, st)

\* The while loop of the fallback Dijkstra.
RECURSIVE heatDijkstra(_, _, _, _)
heatDijkstra(verts, nbrs, endId, st) ==
    IF st.pq = <<>> THEN st
    ELSE LET k    == pqTopIndex(st.pq)
             d    == st.pq[k][1]
             uidx == st.pq[k][2]
             st1  == [st EXCEPT !.pq = pqRemove(@, k)]
         IN IF d > At(st1.distv, uidx) THEN heatDijkstra(verts, nbrs, endId, st1)
            ELSE IF uidx = endId THEN st1
            ELSE heatDijkstra(verts, nbrs, endId,
                              heatRelax(verts, At(nbrs, uidx), 1, uidx, st1))

\* No fallback: the walk's failure is final.
fallbackPath_Missing(verts, nbrs, startId, endId) == <<>>

\* The fallback block: Dijkstra from startId, then the parent chain from
\* endId reversed; <<>> when endId has no parent.
fallbackPath(verts, nbrs, startId, endId) ==
    LET n   == Len(verts)
        st0 == [distv  |-> SetAt([i \in 1..n |-> Infinity], startId, 0),
                parent |-> [i \in 1..n |-> NoParent],
                pq     |-> << <<0, startId>> >>]
        st  == heatDijkstra(verts, nbrs, endId, st0)
    IN IF At(st.parent, endId) = NoParent /\ startId # endId THEN <<>>
       ELSE Reverse(walkParents(st.parent, endId, <<>>, n + 1))

\* Path extraction of makeHeatMethodGeodesic from phi on: the greedy walk,
\* the fallback when the walk did not end at startId, and the final
\* std::reverse.  ids is <<>> when the function returns the empty curve.
extractPath(verts, nbrs, phi, startId, endId) ==
    LET n      == Len(verts)
        walk   == greedyWalk(nbrs, shiftPhi(phi), startId, n, 0, <<endId>>, {endId},
                             <<>>)
        greedy == walk.path
        failed == greedy[Len(greedy)] # startId
        fb     == IF failed THEN fallbackPath(verts, nbrs, startId, endId) ELSE <<>>
    IN [greedy   |-> greedy,
        plateau  |-> walk.plateau,
        fallback |-> failed,
        ids      |-> IF failed
                     THEN (IF fb = <<>> THEN <<>> ELSE Reverse(fb))
                     ELSE Reverse(greedy)]

\* Sum of the chord lengths of a point sequence.
curveLength(points) ==
    SumSeqFrom([i \in 1..(Len(points) - 1) |-> vlen(vsub(points[i + 1], points[i]))])

\* The assembly without the test of the source mass.
heatAssembly_NoMassTest(verts, fs, startId, endId) ==
    LET n == Len(verts)
    IN IF n <= 0 \/ startId < 0 \/ endId < 0 \/ startId >= n \/ endId >= n
       THEN [ok |-> FALSE, mass |-> <<>>, keys |-> <<>>]
       ELSE LET asm == assemble(verts, fs, 1,
                                [mass |-> [i \in 1..n |-> 0],
                                 keys |-> [i \in 1..n |-> <<>>]])
            IN [ok |-> TRUE, mass |-> asm.mass, keys |-> asm.keys]

\* makeHeatMethodGeodesic up to the source-mass test: n and both ids are
\* checked, mass and neighbour keys are assembled.  ok is FALSE where the
\* function returns the empty curve.
heatAssembly(verts, fs, startId, endId) ==
    LET n == Len(verts)
    IN IF n <= 0 \/ startId < 0 \/ endId < 0 \/ startId >= n \/ endId >= n
       THEN [ok |-> FALSE, mass |-> <<>>, keys |-> <<>>]
       ELSE LET asm == assemble(verts, fs, 1,
                                [mass |-> [i \in 1..n |-> 0],
                                 keys |-> [i \in 1..n |-> <<>>]])
            IN [ok |-> At(asm.mass, startId) > AreaEps,
                mass |-> asm.mass, keys |-> asm.keys]

\* The curve makeHeatMethodGeodesic returns before any path is extracted.
emptyCurve == [name |-> "heat_geodesic", length |-> 0, points |-> <<>>]

\* makeHeatMethodGeodesic from the solves on: phi is the potential the two
\* conjugate-gradient solves left behind (their result flags are not read),
\* reversed the iteration order of the weight maps.
heatCurve(verts, asm, startId, endId, phi, reversed) ==
    LET ex == extractPath(verts, neighborLists(asm.keys, reversed),
                          phi, startId, endId)
        points == AsSeq([i \in 1..Len(ex.ids) |-> At(verts, ex.ids[i])])
    IN [curve |-> [name |-> "heat_geodesic",
                   length |-> curveLength(points),
                   points |-> points],
        walk  |-> [ran |-> TRUE, greedy |-> ex.greedy, plateau |-> ex.plateau,
                   fallback |-> ex.fallback]]

\* The tail that reports the error and still pushes the empty curve.
heatResult_PushesEmptyCurve(heat) ==
    IF heat.curve.points = <<>>
    THEN [out  |-> [surfaceType |-> "mesh",
                    error |-> "Heat method failed to produce a path",
                    curves |-> << heat.curve >>],
          walk |-> heat.walk]
    ELSE [out  |-> [surfaceType |-> "mesh", error |-> "",
                    curves |-> << [heat.curve EXCEPT !.length = @ \div 2] >>],
          walk |-> heat.walk]

\* The tail of computeHeatForModel: an empty curve becomes an error, any other
\* curve is rescaled by lengthScale = maxSize / 2 and returned.
heatResult(heat) ==
    IF heat.curve.points = <<>>
    THEN [out  |-> [surfaceType |-> "mesh",
                    error |-> "Heat method failed to produce a path",
                    curves |-> <<>>],
          walk |-> heat.walk]
    ELSE [out  |-> [surfaceType |-> "mesh", error |-> "",
                    curves |-> << [heat.curve EXCEPT !.length = @ \div 2] >>],
          walk |-> heat.walk]

\* The argument checks without the test of the face list.
heatArgError_NoFaceTest(verts, fs, startId, endId) ==
    IF verts = <<>> THEN "No vertices loaded from OBJ"
    ELSE IF startId < 0 \/ endId < 0 \/ startId >= Len(verts) \/ endId >= Len(verts)
    THEN "startId/endId out of range"
    ELSE ""

\* The argument checks of computeHeatForModel: the error it returns, "" when
\* the request goes on to the solver.
heatArgError(verts, fs, startId, endId) ==
    IF verts = <<>> THEN "No vertices loaded from OBJ"
    ELSE IF fs = <<>> THEN "No faces loaded from OBJ"
    ELSE IF startId < 0 \/ endId < 0 \/ startId >= Len(verts) \/ endId >= Len(verts)
    THEN "startId/endId out of range"
    ELSE ""

\* Values the potential may hold at a vertex after the two solves: equal,
\* within the plateau tolerance, beyond it, and not a number.
PhiChoices == {0, 500, 2000, NaN}

\* computeHeatForModel(inputFileName, startId, endId, objVertices, faces): the
\* runs it may make, one per value of phi and iteration order of the weight
\* maps.  A run is the result returned, the path extraction and the calls made.
computeHeatForModel(verts, fs, startId, endId) ==
    LET err == heatArgError(verts, fs, startId, endId)
        t == computeNormalizeTransform(verts)
        normalizedVerts ==
            AsSeq([i \in 1..Len(verts) |-> applyNormalize(t, verts[i])])
        asm == heatAssembly(normalizedVerts, fs, startId, endId)
        solverCalls == [solver |-> "makeHeatMethodGeodesic", vertexReads |-> TRUE]
    IN IF err # ""
       THEN { [out |-> [surfaceType |-> "mesh", error |-> err, curves |-> <<>>],
               walk |-> NoWalk, calls |-> NoCalls] }
       ELSE IF ~asm.ok
       THEN LET r == heatResult([curve |-> emptyCurve, walk |-> NoWalk])
            IN { [out |-> r.out, walk |-> r.walk, calls |-> solverCalls] }
       ELSE { [out |-> r.out, walk |-> r.walk, calls |-> solverCalls] :
                r \in { heatResult(heatCurve(normalizedVerts, asm, startId, endId,
                                             x[1], x[2])) :
                          x \in [1..Len(verts) -> PhiChoices] \X BOOLEAN } }

\* One heat request on the loaded mesh: computeHeatForModel.
MainHeat(startId, endId) ==
    /\ pc = "ready"
    /\ args' = [start |-> startId, target |-> endId]
    /\ \E r \in computeHeatForModel(vertices, faces, startId, endId) :
          /\ heatOut' = r.out
          /\ heatWalk' = r.walk
          /\ calls' = r.calls
    /\ pc' = "heatdone"
    /\ UNCHANGED <<meshVars, result, oobAccess, resultFile, inputFileName, file,
                   proc, shooting>>
    /\ UNCHANGED httpVars

(* --------------- analytics.hpp: computeAnalyticsForModel --------------- *)
\* std::string is a sequence of one-character strings.
UpperAscii == <<"A", "B", "C", "D", "E", "F", "G", "H", "I", "J", "K", "L",
              "M", "N", "O", "P", "Q", "R", "S", "T", "U", "V", "W", "X", "Y",
              "Z">>

LowerAsciiLetters == <<"a", "b", "c", "d", "e", "f", "g", "h", "i", "j", "k",
                     "l", "m", "n", "o", "p", "q", "r", "s", "t", "u", "v",
                     "w", "x", "y", "z">>

\* std::string::npos.
npos == -1

\* lowerAscii: 'A'..'Z' are moved to 'a'..'z', every other character is kept.
lowerAscii(s) ==
    AsSeq([i \in 1..Len(s) |->
             IF \E k \in 1..Len(UpperAscii) : UpperAscii[k] = s[i]
             THEN LowerAsciiLetters[CHOOSE k \in 1..Len(UpperAscii) : UpperAscii[k] = s[i]]
             ELSE s[i]])

\* s.find_last_of(ch): 0-based position of the last ch, npos when there is none.
find_last_of(s, ch) ==
    LET I == {i \in 1..Len(s) : s[i] = ch}
    IN IF I = {} THEN npos ELSE (CHOOSE i \in I : \A j \in I : j <= i) - 1

\* basenameOnly without the cut at the last separator.
basenameOnly_WholePath(path) ==
    AsSeq([i \in 1..Len(path) |-> IF path[i] = "\\" THEN "/" ELSE path[i]])

\* basenameOnly: backslashes become slashes, then everything up to and
\* including the last slash is dropped.
basenameOnly(path) ==
    LET s == AsSeq([i \in 1..Len(path) |-> IF path[i] = "\\" THEN "/" ELSE path[i]])
        slash == find_last_of(s, "/")
    IN IF slash = npos THEN s ELSE SubSeq(s, slash + 2, Len(s))

\* name.find(w): 0-based position of the first occurrence of w, or npos.
RECURSIVE find(_, _, _)
find(name, w, i) ==
    IF i + Len(w) > Len(name) THEN npos
    ELSE IF SubSeq(name, i + 1, i + Len(w)) = w THEN i
    ELSE find(name, w, i + 1)

\* The chain of name tests of computeAnalyticsForModel: the surfaceType it
\* sets for a lower-cased basename and a face list.
inferSurfaceType(name, fs) ==
    IF find(name, <<"p", "l", "a", "n", "e">>, 0) # npos THEN "plane"
    ELSE IF find(name, <<"s", "p", "h", "e", "r", "e">>, 0) # npos THEN "sphere"
    ELSE IF \/ find(name, <<"t", "o", "r", "u", "s">>, 0) # npos
            \/ find(name, <<"d", "o", "n", "u", "t">>, 0) # npos THEN "torus"
    ELSE IF find(name, <<"s", "a", "d", "d", "l", "e">>, 0) # npos THEN "saddle"
    ELSE IF fs # <<>> THEN "mesh"
    ELSE "unsupported"

\* The four closed-form solvers: the function called for a surface type.
analyticSolver(surfaceType) ==
    CASE surfaceType = "plane"  -> "makePlaneGeodesic"
      [] surfaceType = "sphere" -> "makeSphereGreatCircle"
      [] surfaceType = "torus"  -> "makeTorusApproxGeodesic"
      [] surfaceType = "saddle" -> "makeSaddleApproxGeodesic"

\* Iterations of the Newton loop of solveShooting.
MaxNewton == 8

\* No shooting has run.
NoShooting == [ran |-> FALSE, hits |-> {}, singular |-> {}, ok |-> FALSE,
               iterations |-> 0, updates |-> 0]

\* solveShooting from iteration iter on.  The integrations are not computed:
\* hits holds the iterates of the initial velocity (0 is the caller's, k the
\* one after k Newton updates) whose integration ends within 1e-3 of the
\* target, singular the iterations whose Jacobian has |det| < 1e-10.  The
\* result is the flag returned, the iterations entered and the updates
\* applied to du0, dv0.
RECURSIVE solveShooting(_, _, _)
solveShooting(hits, singular, iter) ==
    IF iter >= MaxNewton
    THEN [ok |-> FALSE, iterations |-> iter, updates |-> iter]
    ELSE IF iter \in hits
    THEN [ok |-> TRUE, iterations |-> iter + 1, updates |-> iter]
    ELSE IF iter \in singular
    THEN [ok |-> FALSE, iterations |-> iter + 1, updates |-> iter]
    ELSE solveShooting(hits, singular, iter + 1)

\* A normalised position as a curve point, in units of 1 / Scale.
curvePoint(p) == <<Scale * p[1], Scale * p[2], Scale * p[3]>>

\* makePlaneGeodesic: points[i] = p1 (1 - t) + p2 t with t = i / (n - 1), so
\* the first point is p1 and the last is p2.
makePlaneGeodesic(p1, p2, samples) ==
    [name |-> "plane_straight_line", samples |-> samples,
     first |-> curvePoint(p1), last |-> curvePoint(p2), shape |-> "line"]

\* The radius makeSphereGreatCircle draws on: the mean of |p1| and |p2|, or
\* the larger when one of them is at the centre.
sphereRadius(p1, p2) ==
    LET r1 == vlen(p1)
        r2 == vlen(p2)
    IN IF r1 > 0 /\ r2 > 0 THEN (r1 + r2) \div 2
       ELSE IF r1 >= r2 THEN r1 ELSE r2

\* vmul(a, r) for a = p / |p|, or (0, 0, 1) when p is at the centre.
sphereEndpoint(p, r) ==
    LET rp == vlen(p)
    IN IF rp > 0
       THEN <<(Scale * p[1] * r) \div rp, (Scale * p[2] * r) \div rp,
              (Scale * p[3] * r) \div rp>>
       ELSE <<0, 0, r>>

\* makeSphereGreatCircle: every branch starts at a r and ends at b r (at
\* a r when a and b coincide); neither end is overwritten with p1 or p2.
makeSphereGreatCircle(p1, p2, samples) ==
    LET r == sphereRadius(p1, p2)
    IN [name |-> "sphere_great_circle", samples |-> samples,
        first |-> sphereEndpoint(p1, r), last |-> sphereEndpoint(p2, r),
        shape |-> "arc"]

\* makeTorusApproxGeodesic: the integrated geodesic, replaced by the
\* parameter-space interpolation when solveShooting returned false; then
\* points.front() = p1 and points.back() = p2.
makeTorusApproxGeodesic(p1, p2, samples, ok) ==
    [name |-> "torus_geodesic", samples |-> samples,
     first |-> curvePoint(p1), last |-> curvePoint(p2),
     shape |-> IF ok THEN "geodesic" ELSE "interpolation"]

\* makeSaddleApproxGeodesic: as for the torus.
makeSaddleApproxGeodesic(p1, p2, samples, ok) ==
    [name |-> "saddle_geodesic", samples |-> samples,
     first |-> curvePoint(p1), last |-> curvePoint(p2),
     shape |-> IF ok THEN "geodesic" ELSE "interpolation"]

\* The curve a closed-form solver returns for the normalised endpoints p1 and
\* p2: its name, its max(2, samples) sample points (of which the first and
\* the last are kept) and how the points between were obtained.  ok is the
\* flag of solveShooting.
analyticCurve(surfaceType, p1, p2, ok) ==
    CASE surfaceType = "plane"  -> makePlaneGeodesic(p1, p2, 64)
      [] surfaceType = "sphere" -> makeSphereGreatCircle(p1, p2, 128)
      [] surfaceType = "torus"  -> makeTorusApproxGeodesic(p1, p2, 160, ok)
      [] surfaceType = "saddle" -> makeSaddleApproxGeodesic(p1, p2, 160, ok)

\* What the integrations of one shooting run may give: the iterates that end
\* within the tolerance and the iterations with a singular Jacobian.
HitChoices == { {}, {0}, {2}, {MaxNewton}, {5, MaxNewton} }

SingularChoices == { {}, {0}, {2}, {MaxNewton - 1} }

\* The argument checks of computeAnalyticsForModel: the error it returns, ""
\* when the request goes on to the dispatcher.
analyticsArgError(verts, startId, endId) ==
    IF verts = <<>> THEN "No vertices loaded from OBJ"
    ELSE IF startId < 0 \/ endId < 0 \/ startId >= Len(verts) \/ endId >= Len(verts)
    THEN "startId/endId out of range"
    ELSE ""

\* computeAnalyticsForModel(inputFileName, startId, endId, objVertices,
\* faces): the runs it may make.  out is default-constructed, so surfaceType
\* is still "" where an argument check returns.
computeAnalyticsForModel(path, verts, fs, startId, endId) ==
    LET err == analyticsArgError(verts, startId, endId)
        t == computeNormalizeTransform(verts)
        normalizedVerts ==
            AsSeq([i \in 1..Len(verts) |-> applyNormalize(t, verts[i])])
        name == lowerAscii(basenameOnly(path))
        surfaceType == inferSurfaceType(name, fs)
        asm == heatAssembly(normalizedVerts, fs, startId, endId)
        heatCalls == [solver |-> "makeHeatMethodGeodesic", vertexReads |-> TRUE]
    IN IF err # ""
       THEN { [out |-> [surfaceType |-> "", error |-> err, curves |-> <<>>],
               walk |-> NoWalk, shooting |-> NoShooting, calls |-> NoCalls] }
       ELSE IF surfaceType \in {"plane", "sphere"}
       THEN { [out |-> [surfaceType |-> surfaceType, error |-> "",
                        curves |-> << analyticCurve(surfaceType,
                                          At(normalizedVerts, startId),
                                          At(normalizedVerts, endId), TRUE) >>],
               walk |-> NoWalk, shooting |-> NoShooting,
               calls |-> [solver |-> analyticSolver(surfaceType),
                          vertexReads |-> TRUE]] }
       ELSE IF surfaceType \in {"torus", "saddle"}
       THEN { LET sh == solveShooting(x[1], x[2], 0)
              IN [out |-> [surfaceType |-> surfaceType, error |-> "",
                           curves |-> << analyticCurve(surfaceType,
                                             At(normalizedVerts, startId),
                                             At(normalizedVerts, endId),
                                             sh.ok) >>],
                  walk |-> NoWalk,
                  shooting |-> [ran |-> TRUE, hits |-> x[1], singular |-> x[2],
                                ok |-> sh.ok, iterations |-> sh.iterations,
                                updates |-> sh.updates],
                  calls |-> [solver |-> analyticSolver(surfaceType),
                             vertexReads |-> TRUE]] :
                x \in HitChoices \X SingularChoices }
       ELSE IF surfaceType = "unsupported"
       THEN { [out |-> [surfaceType |-> "unsupported",
                        error |-> "Analytics currently supports plane.obj, sphere.obj, donut.obj, saddle.obj, or heat method on triangle meshes",
                        curves |-> <<>>],
               walk |-> NoWalk, shooting |-> NoShooting,
               calls |-> [solver |-> "", vertexReads |-> TRUE]] }
       ELSE IF ~asm.ok
       THEN LET r == heatResult([curve |-> emptyCurve, walk |-> NoWalk])
            IN { [out |-> r.out, walk |-> r.walk, shooting |-> NoShooting,
                  calls |-> heatCalls] }
       ELSE { [out |-> r.out, walk |-> r.walk, shooting |-> NoShooting,
               calls |-> heatCalls] :
                r \in { heatResult(heatCurve(normalizedVerts, asm, startId, endId,
                                             x[1], x[2])) :
                          x \in [1..Len(verts) -> PhiChoices] \X BOOLEAN } }

\* One analytics request on the loaded mesh: computeAnalyticsForModel.
MainAnalytics(path, startId, endId) ==
    /\ pc = "ready"
    /\ args' = [start |-> startId, target |-> endId]
    /\ inputFileName' = path
    /\ \E r \in computeAnalyticsForModel(path, vertices, faces, startId, endId) :
          /\ heatOut' = r.out
          /\ heatWalk' = r.walk
          /\ shooting' = r.shooting
          /\ calls' = r.calls
    /\ pc' = "analyticsdone"
    /\ UNCHANGED <<meshVars, result, oobAccess, resultFile, file, proc>>
    /\ UNCHANGED httpVars


(* ------------------------ backend: HTTP handlers ------------------------ *)
\* Requests the server handles at the same time.
NumClients == 2

\* The result file names handleCompute, handleAnalytics and handleHeat pass
\* to runEngine.
ResultFiles == {"result.json", "analytics.json", "heat_result.json"}

\* A result file that does not exist.  A file that exists holds the fields
\* writeJSON printed (dijkstra) or those writeAnalyticsJSON printed.
NoContent == [written |-> FALSE, inputFileName |-> <<>>, dijkstra |-> NoFile,
              startId |-> 0, endId |-> 0, out |-> NoHeat]

\* No response sent yet; a response is a status, the error and modelPath
\* members of the gin.H body, or the payload of c.Data.
NoResponse == [status |-> 0, error |-> "", modelPath |-> <<>>,
               payload |-> NoContent]

\* computeRequest before binding.
NoBody == [valid |-> TRUE, Start |-> 0, End |-> 0, Model |-> <<>>]

\* A request nobody has sent: the handler's mode, the bound computeRequest,
\* the engine process (exit status, combined output, the file content it
\* wrote) and the response.
NoRequest == [stage |-> "idle", mode |-> "", req |-> NoBody, code |-> NoExit,
              output |-> "", computed |-> NoContent, response |-> NoResponse]

(* --------------------------- specification ----------------------------- *)
Init ==
    /\ vertices = <<>>
    /\ faces = <<>>
    /\ graph = <<>>
    /\ pc = "loading"
    /\ args = [start |-> 0, target |-> 0]
    /\ result = NoResult
    /\ oobAccess = FALSE
    /\ resultFile = NoFile
    /\ heatOut = NoHeat
    /\ heatWalk = NoWalk
    /\ inputFileName = <<>>
    /\ calls = NoCalls
    /\ file = <<>>
    /\ proc = NoProc
    /\ shooting = NoShooting
    /\ requests = [c \in 1..NumClients |-> NoRequest]
    /\ disk = [f \in ResultFiles |-> NoContent]

\* Vertex ids a request may name: every valid id and one on either side.
Ids == (-1)..MaxVerts

\* "f" lines of three positive indices a < b < c.
TriangleLines ==
    { <<Tok(x[1]), Tok(x[2]), Tok(x[3])>> :
        x \in { y \in (1..MaxVerts) \X (1..MaxVerts) \X (1..MaxVerts) :
                  y[1] < y[2] /\ y[2] < y[3] } }

Next ==
    \/ \E p \in Pos \ Range(vertices) : LoadVertexLine(p)
    \/ \E tokens \in TriangleLines : LoadFaceLine(tokens)
    \/ FinishLoad
    \/ \E start, target \in Ids : MainSolve(start, target)
    \/ \E opened \in BOOLEAN : MainWriteJSON(opened)
    \/ \E argc \in 1..3 : MainBadArgs(argc)
    \/ MainLoadFails

Spec == Init /\ [][Next]_vars

\* Positions in lexicographic order.
PosLess(p, q) ==
    \/ p[1] < q[1]
    \/ p[1] = q[1] /\ p[2] < q[2]
    \/ p[1] = q[1] /\ p[2] = q[2] /\ p[3] < q[3]

\* Vertex positions of the meshes heat requests are run on.
HeatPos == { <<0, 0, 0>>, <<0, 1, 0>>, <<2, 0, 0>>, <<3, 0, 0>> }

\* Heat requests: meshes whose "v" lines come in increasing position order.
NextHeat ==
    \/ \E p \in { q \in HeatPos : \A i \in 1..Len(vertices) : PosLess(vertices[i], q) } :
          LoadVertexLine(p)
    \/ \E tokens \in TriangleLines : LoadFaceLine(tokens)
    \/ FinishLoad
    \/ \E startId, endId \in Ids : MainHeat(startId, endId)

SpecHeat == Init /\ [][NextHeat]_vars

\* Model paths an analytics request may carry.
ModelPaths ==
    { <<"p", "l", "a", "n", "e", ".", "o", "b", "j">>,
      <<"m", "o", "d", "e", "l", "s", "/", "S", "p", "h", "e", "r", "e", ".",
      "o", "b", "j">>,
      <<"D", "O", "N", "U", "T", ".", "o", "b", "j">>,
      <<"t", "o", "r", "u", "s", ".", "o", "b", "j">>,
      <<"s", "a", "d", "d", "l", "e", ".", "o", "b", "j">>,
      <<"c", "u", "b", "e", ".", "o", "b", "j">>,
      <<"p", "l", "a", "n", "e", "/", "c", "u", "b", "e", ".", "o", "b", "j">>,
      <<"t", "o", "r", "u", "s", "\\", "s", "p", "h", "e", "r", "e", ".", "o",
      "b", "j">>,
      <<"s", "a", "d", "d", "l", "e", "_", "s", "p", "h", "e", "r", "e", ".",
      "o", "b", "j">>,
      <<"s", "p", "h", "e", "r", "e", "p", "l", "a", "n", "e", ".", "o", "b",
      "j">>,
      <<"d", "o", "n", "u", "t", "_", "s", "a", "d", "d", "l", "e", ".", "o",
      "b", "j">> }

\* Vertex positions of the meshes analytics requests are run on.
AnalyticsPos == { <<0, 0, 0>>, <<0, 1, 0>>, <<2, 0, 0>>, <<3, 0, 0>> }

\* Their "f" lines: the triangle of the first three vertices, so that a fourth
\* vertex lies on no face.
AnalyticsFaceLines == { <<Tok(1), Tok(2), Tok(3)>> }

\* Analytics and heat requests on meshes whose "v" lines come in increasing
\* position order.
NextAnalytics ==
    \/ \E p \in { q \in AnalyticsPos :
                    \A i \in 1..Len(vertices) : PosLess(vertices[i], q) } :
          LoadVertexLine(p)
    \/ \E tokens \in AnalyticsFaceLines : LoadFaceLine(tokens)
    \/ FinishLoad
    \/ \E startId, endId \in Ids : MainHeat(startId, endId)
    \/ \E path \in ModelPaths, startId, endId \in Ids :
          MainAnalytics(path, startId, endId)

SpecAnalytics == Init /\ [][NextAnalytics]_vars

\* Lines of the OBJ texts the loader is run on: well-formed and short "v"
\* lines, a line of another type, and "f" lines with positive, negative,
\* zero, non-numeric, slashed, repeated, missing and out-of-range tokens.
VertexLines ==
    { [type |-> "v", nums |-> <<0, 0, 0>>, tokens |-> <<>>],
      [type |-> "v", nums |-> <<0, 1, 0>>, tokens |-> <<>>],
      [type |-> "v", nums |-> <<1, 2>>, tokens |-> <<>>],
      [type |-> "v", nums |-> <<1, NotNumeric, 3>>, tokens |-> <<>>] }

OtherLines == { [type |-> "vn", nums |-> <<0, 0, 1>>, tokens |-> <<>>] }

FaceLines ==
    { [type |-> "f", nums |-> <<>>, tokens |-> <<<<"1">>, <<"2">>, <<"3">>>>],
      [type |-> "f", nums |-> <<>>, tokens |-> <<<<"1">>, <<"2">>, <<"3">>, <<"4">>>>],
      [type |-> "f", nums |-> <<>>, tokens |-> <<<<"-", "1">>, <<"-", "2">>, <<"-", "3">>>>],
      [type |-> "f", nums |-> <<>>, tokens |-> <<<<"1">>, <<"2">>, <<"0">>>>],
      [type |-> "f", nums |-> <<>>, tokens |-> <<<<"x">>, <<"1">>, <<"2">>>>],
      [type |-> "f", nums |-> <<>>, tokens |-> <<<<"1">>, <<"2", "x">>, <<"3">>>>],
      [type |-> "f", nums |-> <<>>, tokens |-> <<<<"1", "/", "7">>, <<"2", "/", "x">>, <<"3">>>>],
      [type |-> "f", nums |-> <<>>, tokens |-> <<<<"1">>, <<"1">>, <<"2">>>>],
      [type |-> "f", nums |-> <<>>, tokens |-> <<<<"1">>, <<"2">>>>],
      [type |-> "f", nums |-> <<>>, tokens |-> <<<<"1">>, <<"2">>, <<"3">>, <<"9">>>>] }

NextLoad ==
    \/ \E line \in VertexLines \cup OtherLines \cup FaceLines : ReadLine(line)
    \/ FinishLoad

SpecLoad == Init /\ [][NextLoad]_vars

\* The caller keeps the MeshEngine after a solver call has returned, drops
\* the result and is ready to call a solver on the same mesh again.
CallAgain ==
    /\ pc \in {"solved", "heatdone", "analyticsdone"}
    /\ pc' = "ready"
    /\ args' = [start |-> 0, target |-> 0]
    /\ result' = NoResult
    /\ oobAccess' = FALSE
    /\ heatOut' = NoHeat
    /\ heatWalk' = NoWalk
    /\ inputFileName' = <<>>
    /\ calls' = NoCalls
    /\ proc' = NoProc
    /\ shooting' = NoShooting
    /\ UNCHANGED <<meshVars, resultFile, file>>
    /\ UNCHANGED httpVars

\* The OBJ text of the mesh solvers are called on repeatedly: a triangle with
\* no vertex at the origin.
CallText ==
    << [type |-> "v", nums |-> <<0, 1, 0>>, tokens |-> <<>>],
       [type |-> "v", nums |-> <<2, 0, 0>>, tokens |-> <<>>],
       [type |-> "v", nums |-> <<3, 0, 0>>, tokens |-> <<>>],
       [type |-> "f", nums |-> <<>>, tokens |-> <<<<"1">>, <<"2">>, <<"3">>>>] >>

\* Model paths and ids of the analytics and heat calls of a sequence.
CallPaths ==
    { <<"p", "l", "a", "n", "e", ".", "o", "b", "j">>,
      <<"c", "u", "b", "e", ".", "o", "b", "j">> }

CallIds == {0, 2}

\* Sequences of solver calls on one loaded mesh: a prefix of CallText is
\* loaded, then solve, computeHeatForModel and computeAnalyticsForModel are
\* called in any order, any number of times.
NextCalls ==
    \/ /\ Len(file) < Len(CallText)
       /\ ReadLine(CallText[Len(file) + 1])
    \/ FinishLoad
    \/ \E start, target \in Ids : MainSolve(start, target)
    \/ \E startId, endId \in CallIds : MainHeat(startId, endId)
    \/ \E path \in CallPaths, startId, endId \in CallIds :
          MainAnalytics(path, startId, endId)
    \/ CallAgain

SpecCalls == Init /\ [][NextCalls]_vars

(* -------------------- backend: runEngine and handlers ------------------- *)
\* filepath.Base(strings.ReplaceAll(model, "\\", "/")): "." for the empty
\* path, trailing slashes dropped, then the part after the last slash, "/"
\* when nothing is left.
RECURSIVE stripTrailingSlashes(_)
stripTrailingSlashes(s) ==
    IF Len(s) > 0 /\ s[Len(s)] = "/"
    THEN stripTrailingSlashes(SubSeq(s, 1, Len(s) - 1))
    ELSE s

filepathBase(model) ==
    LET r == AsSeq([i \in 1..Len(model) |->
                      IF model[i] = "\\" THEN "/" ELSE model[i]])
        t == stripTrailingSlashes(r)
        slash == find_last_of(t, "/")
        b == IF slash = npos THEN t ELSE SubSeq(t, slash + 2, Len(t))
    IN IF r = <<>> THEN <<".">>
       ELSE IF b = <<>> THEN <<"/">>
       ELSE b

\* frontend/public/data/ under the project root, where modelPath points.
DataDir ==
    <<"f", "r", "o", "n", "t", "e", "n", "d", "/", "p", "u", "b", "l", "i", "c",
      "/", "d", "a", "t", "a", "/">>

\* modelPath of runEngine.
modelPath(req) == DataDir \o filepathBase(req.Model)

\* The result file name each handler passes with its mode.
resultFilename(mode) ==
    IF mode = "" THEN "result.json"
    ELSE IF mode = "analytics" THEN "analytics.json"
    ELSE "heat_result.json"

\* The model files under frontend/public/data: plane.obj holds CallText.
PlaneObj == <<"p", "l", "a", "n", "e", ".", "o", "b", "j">>

openModel(path) == IF path = DataDir \o PlaneObj THEN <<CallText>> ELSE <<>>

\* writeAnalyticsJSON: inputFileName, startId, endId, surfaceType, error and
\* the curves are printed.
writeAnalyticsJSON(name, startId, endId, out) ==
    [written |-> TRUE, inputFileName |-> name, dijkstra |-> NoFile,
     startId |-> startId, endId |-> endId, out |-> out]

\* The result.json of a Dijkstra run: inputFileName and what writeJSON prints.
writeResultJSON(name, res) ==
    [written |-> TRUE, inputFileName |-> name, dijkstra |-> writeJSON(res),
     startId |-> 0, endId |-> 0, out |-> NoHeat]

\* engine <start_id> <end_id> <model_path> [mode]: the runs the process may
\* make.  Exit 1 on a load or argument failure with a line on the diagnostic
\* stream and no result file; otherwise the solver of the mode runs, the
\* result file of the mode is written, and the exit status is 2 when the
\* analytics/heat result has a non-empty error, 0 otherwise.
engineMain(start, end, path, mode) ==
    IF openModel(path) = <<>>
    THEN { [code |-> 1, output |-> "diagnostic", content |-> NoContent] }
    ELSE UNION {
        LET n == Len(m.vertices)
        IN IF mode = ""
           THEN IF start < 0 \/ start >= n \/ end < 0 \/ end >= n
                THEN { [code |-> 1, output |-> "diagnostic", content |-> NoContent] }
                ELSE { [code |-> 0, output |-> "report",
                        content |-> writeResultJSON(path,
                                       solve(m.vertices, m.graph, start, end))] }
           ELSE { [code |-> IF r.out.error # "" THEN 2 ELSE 0,
                   output |-> o,
                   content |-> writeAnalyticsJSON(path, start, end, r.out)] :
                    r \in IF mode = "heat"
                          THEN computeHeatForModel(m.vertices, m.faces, start, end)
                          ELSE computeAnalyticsForModel(path, m.vertices, m.faces,
                                                        start, end),
                    o \in {"", "report"} } :
        m \in loadLines(openModel(path)[1], 1, {EmptyMesh}) }

\* handleCompute / handleAnalytics / handleHeat up to cmd.CombinedOutput():
\* the body is bound (400 when it does not bind) and runEngine starts the
\* engine process.
HandleRequest(c, mode, body) ==
    /\ requests[c].stage = "idle"
    /\ requests' = [requests EXCEPT ![c] =
          IF ~body.valid
          THEN [@ EXCEPT !.stage = "done", !.mode = mode,
                         !.response = [NoResponse EXCEPT !.status = 400,
                                                         !.error = "bind"]]
          ELSE [@ EXCEPT !.stage = "running", !.mode = mode, !.req = body]]
    /\ UNCHANGED <<meshVars, pc, runVars, file, disk>>

\* The engine process of request c runs to its exit: it writes the result
\* file of its mode under frontend/public.
EngineMain(c) ==
    /\ requests[c].stage = "running"
    /\ \E o \in engineMain(requests[c].req.Start, requests[c].req.End,
                            modelPath(requests[c].req), requests[c].mode) :
          /\ requests' = [requests EXCEPT ![c] =
                [@ EXCEPT !.stage = "exited", !.code = o.code,
                          !.output = o.output, !.computed = o.content]]
          /\ disk' = IF o.content.written
                     THEN [disk EXCEPT ![resultFilename(requests[c].mode)] = o.content]
                     ELSE disk
    /\ UNCHANGED <<meshVars, pc, runVars, file>>

\* runEngine after cmd.CombinedOutput() and the rest of the handler: a
\* non-zero exit is an error whose text is the trimmed output (err.Error()
\* when that is empty); otherwise the result file is read.  The handler
\* answers 500 with error and modelPath, or 200 with the bytes read.
HandleResult(c) ==
    /\ requests[c].stage = "exited"
    /\ LET r == requests[c]
           payload == disk[resultFilename(r.mode)]
           response ==
               IF r.code # 0
               THEN [NoResponse EXCEPT
                        !.status = 500,
                        !.error = IF r.output = "" THEN "exit status" ELSE r.output,
                        !.modelPath = modelPath(r.req)]
               ELSE IF ~payload.written
               THEN [NoResponse EXCEPT !.status = 500, !.error = "failed to read",
                                       !.modelPath = modelPath(r.req)]
               ELSE [NoResponse EXCEPT !.status = 200, !.payload = payload]
       IN requests' = [requests EXCEPT ![c] =
                          [@ EXCEPT !.stage = "done", !.response = response]]
    /\ UNCHANGED <<meshVars, pc, runVars, file, disk>>

\* Request bodies: ids inside and outside the three vertices of plane.obj, a
\* model that is stored (named with and without a directory) and one that is
\* not, and a body that does not bind.
HttpBodies ==
    { [valid |-> TRUE, Start |-> s, End |-> e, Model |-> m] :
        s \in {0, 5}, e \in {1, 2},
        m \in { PlaneObj, <<".", ".", "\\">> \o PlaneObj,
                <<"g", "o", "n", "e", ".", "o", "b", "j">> } }
    \cup { [NoBody EXCEPT !.valid = FALSE] }

\* The server: requests arrive on the three routes, each handled on its own
\* goroutine; the engine processes run beside each other.
NextHttp ==
    \/ \E c \in 1..NumClients, mode \in {"", "analytics", "heat"},
          body \in HttpBodies : HandleRequest(c, mode, body)
    \/ \E c \in 1..NumClients : EngineMain(c)
    \/ \E c \in 1..NumClients : HandleResult(c)

SpecHttp == Init /\ [][NextHttp]_vars

TypeOK == pc \in {"loading", "ready", "solved", "crashed", "exited", "heatdone",
                  "analyticsdone"}

(* ------------------- reference notions for the claims ------------------ *)
\* solve has returned a result for the recorded request.
Returned == pc \in {"solved", "exited"}

\* The recorded request names two vertices of the mesh.
ValidArgs ==
    /\ args.start >= 0 /\ args.start < Len(vertices)
    /\ args.target >= 0 /\ args.target < Len(vertices)

\* The directed entries of the edge graph G: <<u, v, w>>.
GraphEdges ==
    UNION { { <<u, graph[u + 1][k].targetVertex, graph[u + 1][k].weight>> :
                k \in 1..Len(graph[u + 1]) } : u \in 0..(Len(graph) - 1) }

SetMin(S) == CHOOSE x \in S : \A y \in S : x <= y

\* One Bellman-Ford round: for v, v+1, .. the least of prev[v] and
\* prev[u] + w over the edges (u, v, w) of G, appended to acc.
RECURSIVE RelaxRound(_, _, _)
RelaxRound(prev, v, acc) ==
    IF v >= Len(prev) THEN acc
    ELSE RelaxRound(prev, v + 1,
            Append(acc,
                   SetMin({At(prev, v)} \cup
                          { At(prev, e[1]) + e[3] : e \in { x \in GraphEdges :
                                x[2] = v /\ At(prev, x[1]) < DblMax } })))

\* Least total weight of a walk of at most k edges from s to each vertex
\* (DblMax when there is none).
RECURSIVE WalkDist(_, _)
WalkDist(s, k) ==
    IF k = 0 THEN SetAt([i \in 1..Len(vertices) |-> DblMax], s, 0)
    ELSE RelaxRound(WalkDist(s, k - 1), 0, <<>>)

\* Minimum total edge weight over all paths of G from s to t.
ShortestDistance(s, t) == At(WalkDist(s, Len(vertices)), t)

\* t can be reached from s along edges of G.
Connected(s, t) == ShortestDistance(s, t) < DblMax

\* u and v are joined by an edge of G.
Adjacent(u, v) == \E e \in GraphEdges : e[1] = u /\ e[2] = v

\* Sum of the Euclidean lengths of the consecutive steps of a vertex path.
PathLength(path) ==
    SumSeqFrom([i \in 1..(Len(path) - 1) |->
                  dist(At(vertices, path[i]), At(vertices, path[i + 1]))])

(* ------------------------------- claims -------------------------------- *)
\* C1: for in-range start and end with end reachable from start, the
\* totalDistance solve returns is the minimum total edge weight over all
\* paths from start to end in G, although the loop stops when end is popped.
C1_TotalDistanceIsShortest ==
    (Returned /\ ValidArgs /\ Connected(args.start, args.target))
        => result.totalDistance = ShortestDistance(args.start, args.target)

\* C1 witness: end differs from start and was popped while a vertex that is
\* reachable from start had not been reached yet (the loop stopped early).
C1_Witness ==
    /\ Returned /\ ValidArgs /\ result.reachable
    /\ args.start # args.target
    /\ \E v \in 0..(Len(vertices) - 1) :
          /\ Connected(args.start, v)
          /\ At(result.allDistances, v) = DblMax

\* C2: whenever solve returns reachable = true, path has no repeated vertex,
\* consecutive vertices are joined by an edge of G, it starts at start and
\* ends at end.
C2_PathWellFormed ==
    (Returned /\ ValidArgs /\ result.reachable)
        => /\ Len(result.path) >= 1
           /\ result.path[1] = args.start
           /\ result.path[Len(result.path)] = args.target
           /\ \A i, j \in 1..Len(result.path) :
                 i # j => result.path[i] # result.path[j]
           /\ \A i \in 1..(Len(result.path) - 1) :
                 Adjacent(result.path[i], result.path[i + 1])

\* C2 witness: a reachable result whose path has an intermediate vertex.
C2_Witness ==
    /\ Returned /\ ValidArgs /\ result.reachable
    /\ Len(result.path) >= 3

\* C3: whenever solve returns reachable = true, totalDistance is the sum of
\* the Euclidean weights of the consecutive edges of path and equals
\* allDistances[end].
C3_DistanceIsPathLength ==
    (Returned /\ ValidArgs /\ result.reachable)
        => /\ result.totalDistance = PathLength(result.path)
           /\ result.totalDistance = At(result.allDistances, args.target)

\* C3 witness: a reachable result over at least two edges of positive length.
C3_Witness ==
    /\ Returned /\ ValidArgs /\ result.reachable
    /\ Len(result.path) >= 3
    /\ result.totalDistance > 0

\* C4: for every valid input, allDistances[start] = 0 and
\* allDistances[v] <= allDistances[u] + w(u, v) for every edge (u, v) of G.
C4_AllDistancesRelaxed ==
    (Returned /\ ValidArgs)
        => /\ At(result.allDistances, args.start) = 0
           /\ \A e \in GraphEdges :
                 At(result.allDistances, e[2])
                     <= At(result.allDistances, e[1]) + e[3]

\* C5: for in-range start and end, solve returns, with reachable = true
\* exactly when start = end or a path from start to end exists; start = end
\* gives path [start] and totalDistance 0; an unreachable end gives
\* reachable = false, an empty path and totalDistance written as null.
C5_ReachableIffConnected ==
    (pc \in {"solved", "crashed", "exited"} /\ ValidArgs)
        => /\ Returned
           /\ result.reachable = Connected(args.start, args.target)
           /\ (args.start = args.target)
                 => (result.path = <<args.start>> /\ result.totalDistance = 0)
           /\ ~Connected(args.start, args.target)
                 => /\ result.path = <<>>
                    /\ resultFile.written => resultFile.totalIsNull

\* C6: with start or end outside [0, |V|), or an empty mesh, the solver
\* fails with an error instead of returning a result, and touches no
\* per-vertex array.
C6_InvalidIndexRejected ==
    (pc \in {"solved", "crashed", "exited"} /\ ~ValidArgs)
        => /\ ~Returned
           /\ pc # "crashed"
           /\ ~oobAccess

(* ---------------- reference notions for the heat claims ---------------- *)
\* computeHeatForModel has returned for the recorded request.
HeatReturned == pc = "heatdone"

\* The position the heat solver works with for vertex i.
NormPos(i) == applyNormalize(computeNormalizeTransform(vertices), At(vertices, i))

\* The returned curve, when there is one.
HeatPoints == heatOut.curves[1].points

\* Face f has three vertices of the mesh that are not collinear.
NonDegenerate(f) ==
    /\ \A k \in 1..3 : f[k] >= 0 /\ f[k] < Len(vertices)
    /\ vcross(vsub(At(vertices, f[2]), At(vertices, f[1])),
              vsub(At(vertices, f[3]), At(vertices, f[1]))) # <<0, 0, 0>>

\* Vertex i has lumped mass: it lies on a non-degenerate triangle.
HasMass(i) == \E k \in 1..Len(faces) : NonDegenerate(faces[k]) /\ i \in Range(faces[k])

\* u and v are two corners of one mesh triangle.
ShareTriangleEdge(u, v) ==
    u # v /\ \E k \in 1..Len(faces) : u \in Range(faces[k]) /\ v \in Range(faces[k])

\* The vertices joined to those of S by edges of non-degenerate triangles.
RECURSIVE TriReach(_)
TriReach(S) ==
    LET T == S \cup { v \in 0..(Len(vertices) - 1) :
                        \E u \in S, k \in 1..Len(faces) :
                            /\ NonDegenerate(faces[k])
                            /\ u \in Range(faces[k]) /\ v \in Range(faces[k]) }
    IN IF T = S THEN S ELSE TriReach(T)

\* C7: every non-empty heat curve runs from start to end: its first point is
\* the position of startId and its last point the position of endId, after
\* greedy descent and after the Dijkstra fallback alike.
C7_HeatCurveStartToEnd ==
    (HeatReturned /\ heatOut.curves # <<>>)
        => /\ HeatPoints[1] = NormPos(args.start)
           /\ HeatPoints[Len(HeatPoints)] = NormPos(args.target)

\* C8: consecutive points of a heat curve are the positions of two vertices
\* that share an edge of a mesh triangle.
C8_HeatCurveFollowsEdges ==
    (HeatReturned /\ heatOut.curves # <<>>)
        => \A i \in 1..(Len(HeatPoints) - 1) :
              \E u, v \in 0..(Len(vertices) - 1) :
                  /\ NormPos(u) = HeatPoints[i]
                  /\ NormPos(v) = HeatPoints[i + 1]
                  /\ ShareTriangleEdge(u, v)

\* C8 witness: a curve of at least three points.
C8_Witness ==
    /\ HeatReturned /\ heatOut.curves # <<>>
    /\ Len(HeatPoints) >= 3

\* C9: whatever potential the solves leave, when the start vertex has lumped
\* mass and the end vertex is connected to it in the triangle neighbour
\* graph, the heat solver returns a non-empty curve and an empty error.
C9_HeatAlwaysYieldsCurve ==
    (HeatReturned /\ ValidArgs /\ HasMass(args.start)
       /\ args.target \in TriReach({args.start}))
        => /\ heatOut.error = ""
           /\ Len(heatOut.curves) = 1
           /\ HeatPoints # <<>>
           /\ heatWalk.ran

\* C9 witness: the greedy walk failed to reach startId and the fallback
\* produced the curve.
C9_Witness ==
    /\ HeatReturned /\ ValidArgs /\ HasMass(args.start)
    /\ args.target \in TriReach({args.start})
    /\ args.target # args.start
    /\ heatWalk.ran /\ heatWalk.fallback
    /\ heatOut.curves # <<>>

\* C10: a source vertex without lumped mass gives a result with a non-empty
\* error and no curve, for every endId, endId = startId included.
C10_ZeroMassSourceFails ==
    (HeatReturned /\ ValidArgs /\ ~HasMass(args.start))
        => /\ heatOut.error # ""
           /\ heatOut.curves = <<>>

\* C10 witness: the mesh has faces, the source lies on none that has area,
\* and endId = startId.
C10_Witness ==
    /\ HeatReturned /\ ValidArgs /\ faces # <<>>
    /\ ~HasMass(args.start)
    /\ args.target = args.start
    /\ heatOut.error = "Heat method failed to produce a path"

(* ------------------ analytics dispatcher: reference notions ------------- *)
\* An AnalyticsResult has been returned for the recorded request.
AnalyticsReturned == pc \in {"analyticsdone", "heatdone"}

\* Two characters that are the same letter, whatever their case.
SameLetter(a, b) ==
    \/ a = b
    \/ \E k \in 1..Len(UpperAscii) : {a, b} = {UpperAscii[k], LowerAsciiLetters[k]}

\* w occurs in s, case ignored.
Contains(s, w) ==
    \E i \in 0..(Len(s) - Len(w)) : \A j \in 1..Len(w) : SameLetter(s[i + j], w[j])

\* The part of a path after its last directory separator.
Basename(path) ==
    LET seps == {i \in 1..Len(path) : path[i] \in {"/", "\\"}}
    IN IF seps = {} THEN path
       ELSE SubSeq(path, (CHOOSE i \in seps : \A j \in seps : j <= i) + 1, Len(path))

\* The surface the dispatch rule names for a path and a face list.
ExpectedSurface(path, fs) ==
    LET b == Basename(path)
    IN IF Contains(b, <<"p", "l", "a", "n", "e">>) THEN "plane"
       ELSE IF Contains(b, <<"s", "p", "h", "e", "r", "e">>) THEN "sphere"
       ELSE IF Contains(b, <<"t", "o", "r", "u", "s">>)
               \/ Contains(b, <<"d", "o", "n", "u", "t">>) THEN "torus"
       ELSE IF Contains(b, <<"s", "a", "d", "d", "l", "e">>) THEN "saddle"
       ELSE IF fs # <<>> THEN "mesh"
       ELSE "unsupported"

\* The solver function that belongs to a surface type ("" for unsupported).
ExpectedSolver(surfaceType) ==
    CASE surfaceType = "plane"  -> "makePlaneGeodesic"
      [] surfaceType = "sphere" -> "makeSphereGreatCircle"
      [] surfaceType = "torus"  -> "makeTorusApproxGeodesic"
      [] surfaceType = "saddle" -> "makeSaddleApproxGeodesic"
      [] surfaceType = "mesh"   -> "makeHeatMethodGeodesic"
      [] OTHER                  -> ""

(* ---------------------------------- C11 -------------------------------- *)
\* C11: in every AnalyticsResult returned by computeAnalyticsForModel or
\* computeHeatForModel the error string is empty if and only if the result
\* holds at least one curve.
C11_ErrorEmptyIffCurve ==
    AnalyticsReturned => ((heatOut.error = "") <=> (Len(heatOut.curves) >= 1))

\* An analytics request that fell through to the Heat Method and failed: an
\* error and no curve.
C11_Witness ==
    /\ pc = "analyticsdone"
    /\ calls.solver = "makeHeatMethodGeodesic"
    /\ heatOut.error # ""
    /\ heatOut.curves = <<>>

(* ---------------------------------- C12 -------------------------------- *)
\* C12: every returned AnalyticsResult, on success or on error, has
\* surfaceType equal to one of plane, sphere, torus, saddle, mesh,
\* unsupported.
C12_SurfaceTypeInEnum ==
    AnalyticsReturned =>
        heatOut.surfaceType \in {"plane", "sphere", "torus", "saddle", "mesh",
                                 "unsupported"}

(* ---------------------------------- C13 -------------------------------- *)
\* C13: in analytics mode the solver is chosen from the lower-cased basename
\* of the model path only, testing plane, sphere, torus-or-donut, saddle in
\* that order, the first match winning; with no match the Heat Method is used
\* when faces are present, otherwise the result is unsupported.
C13_DispatchByBasename ==
    (pc = "analyticsdone" /\ ValidArgs) =>
        /\ heatOut.surfaceType = ExpectedSurface(inputFileName, faces)
        /\ calls.solver = ExpectedSolver(ExpectedSurface(inputFileName, faces))

\* A path whose directory names a surface, or whose basename names two, has
\* been dispatched.
C13_Witness ==
    /\ pc = "analyticsdone"
    /\ ValidArgs
    /\ Contains(inputFileName, <<"p", "l", "a", "n", "e">>)
    /\ heatOut.surfaceType = "mesh"
    /\ Len(heatOut.curves) = 1

(* ---------------------------------- C14 -------------------------------- *)
\* C14: given an empty vertex list, a startId or endId outside [0, |V|), or
\* (heat only) an empty face list, computeAnalyticsForModel and
\* computeHeatForModel return a non-empty error and no curves, without
\* running any solver or reading any vertex.
C14_BadArgsRejectedEarly ==
    (AnalyticsReturned /\ (~ValidArgs \/ (pc = "heatdone" /\ faces = <<>>))) =>
        /\ heatOut.error # ""
        /\ heatOut.curves = <<>>
        /\ calls.solver = ""
        /\ ~calls.vertexReads

\* A heat request with valid ids on a mesh that has vertices and no face.
C14_Witness ==
    /\ pc = "heatdone"
    /\ ValidArgs
    /\ faces = <<>>
    /\ heatOut.error = "No faces loaded from OBJ"

(* ----------------------- loader: reference notions --------------------- *)
\* The line read last.
LastLine == file[Len(file)]

\* A "v" line that carries three numbers.
WellFormedV(line) ==
    /\ line.type = "v"
    /\ Len(line.nums) >= 3
    /\ \A k \in 1..3 : line.nums[k] # NotNumeric

\* The head of a face token: its longest prefix without a slash.
HeadOf(t) ==
    SubSeq(t, 1, CHOOSE k \in 0..Len(t) :
                    /\ \A i \in 1..k : t[i] # "/"
                    /\ k = Len(t) \/ t[k + 1] = "/")

\* A head that is a decimal integer: an optional sign, then digits only.
IsNumeral(h) ==
    LET first == IF Len(h) >= 1 /\ h[1] \in {"-", "+"} THEN 2 ELSE 1
    IN first <= Len(h) /\ \A i \in first..Len(h) : h[i] \in Range(Digits)

RECURSIVE Pow10(_)
Pow10(k) == IF k = 0 THEN 1 ELSE 10 * Pow10(k - 1)

\* The integer a numeral denotes.
NumeralValue(h) ==
    LET first == IF h[1] \in {"-", "+"} THEN 2 ELSE 1
        mag == SumSeqFrom([i \in 1..(Len(h) - first + 1) |->
                   digitValue(h[first + i - 1]) * Pow10(Len(h) - first + 1 - i)])
    IN IF h[1] = "-" THEN 0 - mag ELSE mag

\* OBJ convention: index h names vertex h-1 when positive, |V| + h when
\* negative, |V| being nv.
Resolve(h, nv) == IF h > 0 THEN h - 1 ELSE nv + h

\* A token whose head is zero, no number, or names no vertex among the first nv.
BadHead(t, nv) ==
    LET h == HeadOf(t)
    IN \/ ~IsNumeral(h)
       \/ NumeralValue(h) = 0
       \/ Resolve(NumeralValue(h), nv) < 0
       \/ Resolve(NumeralValue(h), nv) >= nv

\* An "f" line of at least three tokens whose heads are all integers.
IntegerFace(line) ==
    /\ line.type = "f"
    /\ Len(line.tokens) >= 3
    /\ \A i \in 1..Len(line.tokens) : IsNumeral(HeadOf(line.tokens[i]))

\* Such a line all of whose indices name one of the first nv vertices.
ValidFace(line, nv) ==
    /\ IntegerFace(line)
    /\ \A i \in 1..Len(line.tokens) : ~BadHead(line.tokens[i], nv)

\* The vertex indices an integer face line names.
Resolved(line, nv) ==
    AsSeq([i \in 1..Len(line.tokens) |->
             Resolve(NumeralValue(HeadOf(line.tokens[i])), nv)])

\* The fan (t1, ti, ti+1), i = 2 .. k-1, of indices r = t1 .. tk.
ExpectedFan(r) == AsSeq([i \in 1..(Len(r) - 2) |-> <<r[1], r[i + 1], r[i + 2]>>])

\* The neighbour list of u in G, empty when G holds none for u.
NeighbourList(g, u) == IF u >= Len(g) THEN <<>> ELSE At(g, u)

\* Number of entries u -> v in G.
EntryCount(g, u, v) ==
    Cardinality({i \in 1..Len(NeighbourList(g, u)) :
                    NeighbourList(g, u)[i].targetVertex = v})

\* Number of entries u -> v the edges (a,b), (b,c), (c,a) of the triangles
\* tris contribute, each edge in both directions.
AddedCount(tris, u, v) ==
    Cardinality({x \in (1..Len(tris)) \X (1..3) \X {"forth", "back"} :
        LET tri == tris[x[1]]
            p == tri[x[2]]
            q == tri[(x[2] % 3) + 1]
        IN IF x[3] = "forth" THEN p = u /\ q = v ELSE q = u /\ p = v})

\* Decimal digits of a positive integer.
RECURSIVE Decimal(_)
Decimal(n) ==
    IF n < 10 THEN <<Digits[n + 1]>>
    ELSE Append(Decimal(n \div 10), Digits[(n % 10) + 1])

\* V and F written back as "v x y z" and "f a b c" lines with 1-based
\* indices; a coordinate that is not a number prints as a word that does not
\* parse as one.
EmitOBJ(V, F) ==
    AsSeq([i \in 1..Len(V) |->
             [type |-> "v",
              nums |-> AsSeq([k \in 1..3 |-> IF isNaN(V[i][k]) THEN NotNumeric
                                             ELSE V[i][k]]),
              tokens |-> <<>>]])
    \o AsSeq([i \in 1..Len(F) |->
             [type |-> "f", nums |-> <<>>,
              tokens |-> AsSeq([k \in 1..3 |-> Decimal(F[i][k] + 1)])]])

\* The text read so far holds only triangle faces and no negative index.
TrianglesNoNegative ==
    \A i \in 1..Len(file) :
        file[i].type = "f" =>
            /\ Len(file[i].tokens) = 3
            /\ \A k \in 1..3 : file[i].tokens[k][1] # "-"

(* ---------------------------------- C15 -------------------------------- *)
\* C15: V holds exactly one entry per "v" line that carries three numeric
\* fields, in file order; "v" lines with fewer numeric fields are skipped.
C15_VertexPerWellFormedLine ==
    LET sel == SelectSeq(file, WellFormedV)
    IN vertices = AsSeq([i \in 1..Len(sel) |-> SubSeq(sel[i].nums, 1, 3)])

(* ---------------------------------- C16 -------------------------------- *)
\* C16: an "f" line with a zero, non-numeric or out-of-range head at any
\* position adds no triangle to F and no edge to G.
C16_BadTokenSkipsFace ==
    [][ ( /\ file' # file
          /\ file'[Len(file')].type = "f"
          /\ \E i \in 1..Len(file'[Len(file')].tokens) :
                BadHead(file'[Len(file')].tokens[i], Len(vertices)) )
        => (faces' = faces /\ graph' = graph) ]_vars

(* ---------------------------------- C17 -------------------------------- *)
\* C17: a positive face index h resolves to vertex h-1 and a negative one to
\* |V| + h, |V| being the number of vertices read before the face line; a face
\* that names a vertex not yet read is dropped.
C17_IndexResolution ==
    [][ (file' # file /\ IntegerFace(file'[Len(file')])) =>
          IF ValidFace(file'[Len(file')], Len(vertices))
          THEN /\ Len(faces') > Len(faces)
               /\ faces'[Len(faces) + 1] =
                     SubSeq(Resolved(file'[Len(file')], Len(vertices)), 1, 3)
          ELSE faces' = faces ]_vars

\* A face line with negative indices has just been read and has added the
\* triangle of the last three vertices.
C17_Witness ==
    /\ file # <<>>
    /\ IntegerFace(LastLine)
    /\ \A k \in 1..3 : LastLine.tokens[k][1] = "-"
    /\ faces # <<>>
    /\ Len(vertices) - 1 \in Range(faces[Len(faces)])

(* ---------------------------------- C18 -------------------------------- *)
\* C18: a valid face line with k >= 3 indices t1 .. tk adds exactly the k-2
\* triangles (t1, ti, ti+1), i = 2 .. k-1, to F in that order, and each adds
\* its three edges to G (in both directions, weighted by the distance).
C18_FanTriangulation ==
    [][ (file' # file /\ ValidFace(file'[Len(file')], Len(vertices))) =>
          \A tris \in { ExpectedFan(Resolved(file'[Len(file')], Len(vertices))) } :
            LET ids == 0..(Len(vertices) - 1)
                corners == UNION { Range(tris[i]) : i \in 1..Len(tris) }
            IN /\ faces' = faces \o tris
               /\ \A u \in ids \ corners :
                     NeighbourList(graph', u) = NeighbourList(graph, u)
               /\ \A u \in corners :
                     /\ \A v \in ids :
                           EntryCount(graph', u, v) =
                               EntryCount(graph, u, v) + AddedCount(tris, u, v)
                     /\ \A e \in Range(NeighbourList(graph', u)) :
                           e.weight = dist(At(vertices, u),
                                           At(vertices, e.targetVertex)) ]_vars

\* A quad has just been read and has added its two fan triangles.
C18_Witness ==
    /\ file # <<>>
    /\ LastLine.type = "f"
    /\ Len(LastLine.tokens) = 4
    /\ Len(faces) >= 2
    /\ faces[Len(faces) - 1] = <<0, 1, 2>>
    /\ faces[Len(faces)] = <<0, 2, 3>>

(* ---------------------------------- C19 -------------------------------- *)
\* C19: a face line that names the same vertex index twice is skipped: it
\* adds no triangle to F and no edge to G.
C19_DuplicateIndexSkipped ==
    [][ ( /\ file' # file
          /\ IntegerFace(file'[Len(file')])
          /\ LET r == Resolved(file'[Len(file')], Len(vertices))
             IN \E i, j \in 1..Len(r) : i # j /\ r[i] = r[j] )
        => (faces' = faces /\ graph' = graph) ]_vars

(* ---------------------------------- C20 -------------------------------- *)
\* C20: for a text with only triangle faces and no negative indices, writing
\* the loaded V and F back as "v" and "f" lines and loading that text again
\* gives the same V and the same F.
C20_RoundTrip ==
    (pc = "ready" /\ TrianglesNoNegative) =>
        \A m \in loadLines(EmitOBJ(vertices, faces), 1, {EmptyMesh}) :
            m.vertices = vertices /\ m.faces = faces

(* ------------------------------ C21 .. C30 ----------------------------- *)
\* C21: after loadOBJ the edge graph holds a neighbour list for every vertex
\* index in [0, |V|), vertices used by no face included, so solve with an
\* in-range start and end only reads neighbour lists that exist.
C21_NeighbourListPerVertex ==
    /\ pc # "loading" => Len(graph) >= Len(vertices)
    /\ (pc \in {"solved", "crashed", "exited"} /\ ValidArgs) => ~oobAccess

\* Number of entries u -> v of weight w in G.
WeightedCount(g, u, v, w) ==
    Cardinality({i \in 1..Len(NeighbourList(g, u)) :
                    /\ NeighbourList(g, u)[i].targetVertex = v
                    /\ NeighbourList(g, u)[i].weight = w})

\* Total number of directed entries of G.
RECURSIVE TotalEntries(_, _)
TotalEntries(g, k) ==
    IF k = 0 THEN 0 ELSE Len(g[k]) + TotalEntries(g, k - 1)

\* C22: after any loadOBJ, G is exactly the undirected multigraph of F: the
\* number of entries u -> v is the number of times the triangles of F hold
\* the edge {u, v}, an entry u -> v is matched by an entry v -> u of the same
\* weight, every neighbour index and every face index lies in [0, |V|), and
\* G holds 6 |F| directed entries.
C22_GraphIsMultigraphOfFaces ==
    pc = "ready" =>
        \A n \in { Len(vertices) } :
            /\ \A u, v \in 0..(n - 1) :
                  /\ EntryCount(graph, u, v) = AddedCount(faces, u, v)
                  /\ \A e \in Range(NeighbourList(graph, u)) :
                        e.targetVertex = v =>
                            WeightedCount(graph, u, v, e.weight)
                                = WeightedCount(graph, v, u, e.weight)
            /\ Len(graph) <= n
            /\ \A u \in 0..(Len(graph) - 1) :
                  \A e \in Range(At(graph, u)) :
                      e.targetVertex >= 0 /\ e.targetVertex < n
            /\ \A i \in 1..Len(faces) :
                  \A k \in 1..3 : faces[i][k] >= 0 /\ faces[i][k] < n
            /\ TotalEntries(graph, Len(graph)) = 6 * Len(faces)

\* A loaded mesh with a fan of two triangles, a repeated index and a vertex
\* on no face.
C22_Witness ==
    /\ pc = "ready"
    /\ Len(faces) >= 2
    /\ \E i \in 1..Len(faces) : faces[i][1] = faces[i][2]
    /\ Len(graph) < Len(vertices)

\* C28: for any phi the greedy walk takes at most 3 |V| steps, so its path
\* holds at most 3 |V| + 1 vertices, and a plateau step is only ever taken to
\* a vertex the walk has not visited before.
C28_GreedyWalkBounded ==
    (HeatReturned /\ heatWalk.ran) =>
        /\ Len(heatWalk.plateau) <= 3 * Len(vertices)
        /\ Len(heatWalk.greedy) = Len(heatWalk.plateau) + 1
        /\ Len(heatWalk.greedy) <= 3 * Len(vertices) + 1
        /\ \A i \in 1..Len(heatWalk.plateau) :
              heatWalk.plateau[i] =>
                  \A j \in 1..i : heatWalk.greedy[j] # heatWalk.greedy[i + 1]

\* A walk that took a plateau step and a descent step and then gave up, so
\* that the fallback ran.
C28_Witness ==
    /\ HeatReturned /\ heatWalk.ran /\ heatWalk.fallback
    /\ \E i, j \in 1..Len(heatWalk.plateau) :
          heatWalk.plateau[i] /\ ~heatWalk.plateau[j]

\* C30: the vertex path of the greedy descent never holds the same vertex
\* twice, for any phi.
C30_GreedyPathNoRepeat ==
    (HeatReturned /\ heatWalk.ran) =>
        \A i, j \in 1..Len(heatWalk.greedy) :
            i # j => heatWalk.greedy[i] # heatWalk.greedy[j]

\* The returned curve is one of the four closed-form curves.
ClosedFormCurve ==
    /\ AnalyticsReturned
    /\ heatOut.surfaceType \in {"plane", "sphere", "torus", "saddle"}
    /\ Len(heatOut.curves) = 1

\* C23: every plane, sphere, torus and saddle curve starts at the position of
\* V[startId] and ends at the position of V[endId], for all endpoint pairs.
\* Positions are taken where the solvers work, after the normalisation
\* transform; the tolerance 1e-6 is below the resolution of the positions.
C23_ClosedFormEndpointsPinned ==
    ClosedFormCurve =>
        /\ heatOut.curves[1].first = curvePoint(NormPos(args.start))
        /\ heatOut.curves[1].last = curvePoint(NormPos(args.target))

\* C27: solveShooting enters at most 8 iterations, stops at an iteration with
\* a singular Jacobian, and returns true exactly when one of the iterates it
\* produced, the one of the last Newton update included, ends within the
\* tolerance; when it returns false the curve is the parameter-space
\* interpolation.
C27_ShootingFlag ==
    (AnalyticsReturned /\ shooting.ran) =>
        /\ shooting.iterations <= MaxNewton
        /\ \A k \in shooting.singular : shooting.iterations <= k + 1
        /\ shooting.ok <=> (\E k \in 0..shooting.updates : k \in shooting.hits)
        /\ ~shooting.ok => heatOut.curves[1].shape = "interpolation"

\* C26: no solver call changes the mesh, so after any sequence of calls V, F
\* and G are still what loadOBJ made of the text, and each call returns what
\* the same call returns on a freshly loaded mesh: solve for in-range ids, the
\* closed-form solvers for their curve.
C26_SolversLeaveMeshUnchanged ==
    pc # "loading" =>
        \A m \in loadLines(file, 1, {EmptyMesh}) :
            /\ vertices = m.vertices /\ faces = m.faces /\ graph = m.graph
            /\ (Returned /\ ValidArgs /\ ~oobAccess) =>
                  \A r \in { solve(m.vertices, m.graph, args.start, args.target) } :
                      /\ result.totalDistance = r.totalDistance
                      /\ result.reachable = r.reachable
                      /\ result.path = r.path
                      /\ result.allDistances = r.allDistances
            /\ ClosedFormCurve =>
                  \A t \in { computeNormalizeTransform(m.vertices) } :
                      heatOut.curves[1] =
                          analyticCurve(heatOut.surfaceType,
                                        applyNormalize(t, At(m.vertices, args.start)),
                                        applyNormalize(t, At(m.vertices, args.target)),
                                        shooting.ok)

\* The engine process has ended: main returned or the process was killed.
ProcessEnded == pc \in {"exited", "crashed"}

\* C25: every argument-level error (argc below 4) and every I/O error (model
\* file not opened, result file not written) makes the engine print a
\* diagnostic and end with a non-zero status, without running a solver on
\* missing input and without reporting success.
C25_ErrorsExitNonZero ==
    (ProcessEnded /\ (proc.argc < 4 \/ ~proc.modelOpened \/ ~proc.resultOpened))
        => /\ proc.diagnostic
           /\ proc.code # ExitSuccess
           /\ proc.code # NoExit
           /\ (proc.argc < 4 \/ ~proc.modelOpened) => ~proc.solved


\* C24: a request whose analytics or heat engine run ended with a non-empty
\* error (exit status 2) is answered with status 200 and, as body, the result
\* file the engine wrote for it, error field included.
C24_ErrorResultPassedThrough ==
    \A c \in 1..NumClients :
        (requests[c].stage = "done" /\ requests[c].code = 2)
            => /\ requests[c].response.status = 200
               /\ requests[c].response.payload = requests[c].computed
               /\ requests[c].response.payload.out.error # ""

\* C29: every request answered with a result body gets the content its own
\* engine run computed for its (start, end, model), whatever other requests
\* are served at the same time.
C29_ResponseIsOwnResult ==
    \A c \in 1..NumClients :
        (requests[c].stage = "done" /\ requests[c].response.status = 200)
            => requests[c].response.payload = requests[c].computed

====
